---- MODULE Spec2Model ----
(***************************************************************************)
(* A model of prprocessor (prprocessor/__main__.py): the commit-message    *)
(* parser, the repository policy lookup, the check-run lifecycle of        *)
(* run_pull_request_check with its retry loop, and the reconciliation of   *)
(* Redmine issues.                                                         *)
(*                                                                         *)
(* A string of the program is a sequence of one-character strings, so      *)
(* that the regular expressions are computed character by character.       *)
(***************************************************************************)
EXTENDS Integers, Sequences, FiniteSets, TLC

VARIABLES
    pmsg,      \* SpecParse: the parts the commit message was built from
    parsed,    \* SpecParse: the outcome of parsing the message
    pr,        \* per handler: the pull_request payload of the event
    handle,    \* per handler: the check_run the handler holds
    arg,       \* per handler: the check_run argument of the call
    pc,        \* per handler: control point in run_pull_request_check
    attempt,   \* per handler: the loop variable of the retry loop
    tries,     \* per handler: calls of get_issues_from_pr made so far
    sleeps,    \* per handler: the arguments of asyncio.sleep, in order
    config,    \* per handler: outcome of the last get_config
    results,   \* per handler: issue_results and invalid_commits
    recon,     \* per handler: how update_redmine_on_issues ended
    report,    \* per handler: conclusion and output of the completed patch
    calls,     \* per handler: the check-run requests sent to GitHub
    saves,     \* per handler: the issue.save calls made, in order
    runs,      \* GitHub: the check runs of the commit
    tracker,   \* Redmine: the issues
    resaves,   \* SpecSync: the issue.save calls of the second run
    event,     \* per handler: the webhook event and its pull requests left
    merge,     \* per handler: the locals of on_pr_merge and its Redmine requests
    versions   \* Redmine: the versions of each project, oldest first

mergeVars == <<event, merge, versions>>
flowVars == <<pr, arg, handle, pc, attempt, tries, sleeps, config, results,
              recon, report, calls, saves, runs, tracker, resaves, mergeVars>>
parseVars == <<pmsg, parsed>>
vars == <<pmsg, parsed, pr, arg, handle, pc, attempt, tries, sleeps, config,
          results, recon, report, calls, saves, runs, tracker, resaves,
          event, merge, versions>>

None == "None"

(***************************************************************************)
(* Characters.  A character outside ASCII is written U+ and its code       *)
(* point.  LongS, DotlessI and DottedI are the characters outside ASCII    *)
(* that re.IGNORECASE lets match a letter of the words fixes and refs.     *)
(***************************************************************************)
LongS == "U+017F"
DotlessI == "U+0131"
DottedI == "U+0130"
CombiningDot == "U+0307"
NL == "\n"

\* The characters \d matches in a str pattern: the decimal digits of
\* Unicode, each row holding the digits 0 to 9 of one script.
DecimalDigits ==
    <<
      <<"0", "1", "2", "3", "4",
        "5", "6", "7", "8", "9">>,
      <<"U+0660", "U+0661", "U+0662", "U+0663", "U+0664",
        "U+0665", "U+0666", "U+0667", "U+0668", "U+0669">>,
      <<"U+06F0", "U+06F1", "U+06F2", "U+06F3", "U+06F4",
        "U+06F5", "U+06F6", "U+06F7", "U+06F8", "U+06F9">>,
      <<"U+07C0", "U+07C1", "U+07C2", "U+07C3", "U+07C4",
        "U+07C5", "U+07C6", "U+07C7", "U+07C8", "U+07C9">>,
      <<"U+0966", "U+0967", "U+0968", "U+0969", "U+096A",
        "U+096B", "U+096C", "U+096D", "U+096E", "U+096F">>,
      <<"U+09E6", "U+09E7", "U+09E8", "U+09E9", "U+09EA",
        "U+09EB", "U+09EC", "U+09ED", "U+09EE", "U+09EF">>,
      <<"U+0A66", "U+0A67", "U+0A68", "U+0A69", "U+0A6A",
        "U+0A6B", "U+0A6C", "U+0A6D", "U+0A6E", "U+0A6F">>,
      <<"U+0AE6", "U+0AE7", "U+0AE8", "U+0AE9", "U+0AEA",
        "U+0AEB", "U+0AEC", "U+0AED", "U+0AEE", "U+0AEF">>,
      <<"U+0B66", "U+0B67", "U+0B68", "U+0B69", "U+0B6A",
        "U+0B6B", "U+0B6C", "U+0B6D", "U+0B6E", "U+0B6F">>,
      <<"U+0BE6", "U+0BE7", "U+0BE8", "U+0BE9", "U+0BEA",
        "U+0BEB", "U+0BEC", "U+0BED", "U+0BEE", "U+0BEF">>,
      <<"U+0C66", "U+0C67", "U+0C68", "U+0C69", "U+0C6A",
        "U+0C6B", "U+0C6C", "U+0C6D", "U+0C6E", "U+0C6F">>,
      <<"U+0CE6", "U+0CE7", "U+0CE8", "U+0CE9", "U+0CEA",
        "U+0CEB", "U+0CEC", "U+0CED", "U+0CEE", "U+0CEF">>,
      <<"U+0D66", "U+0D67", "U+0D68", "U+0D69", "U+0D6A",
        "U+0D6B", "U+0D6C", "U+0D6D", "U+0D6E", "U+0D6F">>,
      <<"U+0DE6", "U+0DE7", "U+0DE8", "U+0DE9", "U+0DEA",
        "U+0DEB", "U+0DEC", "U+0DED", "U+0DEE", "U+0DEF">>,
      <<"U+0E50", "U+0E51", "U+0E52", "U+0E53", "U+0E54",
        "U+0E55", "U+0E56", "U+0E57", "U+0E58", "U+0E59">>,
      <<"U+0ED0", "U+0ED1", "U+0ED2", "U+0ED3", "U+0ED4",
        "U+0ED5", "U+0ED6", "U+0ED7", "U+0ED8", "U+0ED9">>,
      <<"U+0F20", "U+0F21", "U+0F22", "U+0F23", "U+0F24",
        "U+0F25", "U+0F26", "U+0F27", "U+0F28", "U+0F29">>,
      <<"U+1040", "U+1041", "U+1042", "U+1043", "U+1044",
        "U+1045", "U+1046", "U+1047", "U+1048", "U+1049">>,
      <<"U+1090", "U+1091", "U+1092", "U+1093", "U+1094",
        "U+1095", "U+1096", "U+1097", "U+1098", "U+1099">>,
      <<"U+17E0", "U+17E1", "U+17E2", "U+17E3", "U+17E4",
        "U+17E5", "U+17E6", "U+17E7", "U+17E8", "U+17E9">>,
      <<"U+1810", "U+1811", "U+1812", "U+1813", "U+1814",
        "U+1815", "U+1816", "U+1817", "U+1818", "U+1819">>,
      <<"U+1946", "U+1947", "U+1948", "U+1949", "U+194A",
        "U+194B", "U+194C", "U+194D", "U+194E", "U+194F">>,
      <<"U+19D0", "U+19D1", "U+19D2", "U+19D3", "U+19D4",
        "U+19D5", "U+19D6", "U+19D7", "U+19D8", "U+19D9">>,
      <<"U+1A80", "U+1A81", "U+1A82", "U+1A83", "U+1A84",
        "U+1A85", "U+1A86", "U+1A87", "U+1A88", "U+1A89">>,
      <<"U+1A90", "U+1A91", "U+1A92", "U+1A93", "U+1A94",
        "U+1A95", "U+1A96", "U+1A97", "U+1A98", "U+1A99">>,
      <<"U+1B50", "U+1B51", "U+1B52", "U+1B53", "U+1B54",
        "U+1B55", "U+1B56", "U+1B57", "U+1B58", "U+1B59">>,
      <<"U+1BB0", "U+1BB1", "U+1BB2", "U+1BB3", "U+1BB4",
        "U+1BB5", "U+1BB6", "U+1BB7", "U+1BB8", "U+1BB9">>,
      <<"U+1C40", "U+1C41", "U+1C42", "U+1C43", "U+1C44",
        "U+1C45", "U+1C46", "U+1C47", "U+1C48", "U+1C49">>,
      <<"U+1C50", "U+1C51", "U+1C52", "U+1C53", "U+1C54",
        "U+1C55", "U+1C56", "U+1C57", "U+1C58", "U+1C59">>,
      <<"U+A620", "U+A621", "U+A622", "U+A623", "U+A624",
        "U+A625", "U+A626", "U+A627", "U+A628", "U+A629">>,
      <<"U+A8D0", "U+A8D1", "U+A8D2", "U+A8D3", "U+A8D4",
        "U+A8D5", "U+A8D6", "U+A8D7", "U+A8D8", "U+A8D9">>,
      <<"U+A900", "U+A901", "U+A902", "U+A903", "U+A904",
        "U+A905", "U+A906", "U+A907", "U+A908", "U+A909">>,
      <<"U+A9D0", "U+A9D1", "U+A9D2", "U+A9D3", "U+A9D4",
        "U+A9D5", "U+A9D6", "U+A9D7", "U+A9D8", "U+A9D9">>,
      <<"U+A9F0", "U+A9F1", "U+A9F2", "U+A9F3", "U+A9F4",
        "U+A9F5", "U+A9F6", "U+A9F7", "U+A9F8", "U+A9F9">>,
      <<"U+AA50", "U+AA51", "U+AA52", "U+AA53", "U+AA54",
        "U+AA55", "U+AA56", "U+AA57", "U+AA58", "U+AA59">>,
      <<"U+ABF0", "U+ABF1", "U+ABF2", "U+ABF3", "U+ABF4",
        "U+ABF5", "U+ABF6", "U+ABF7", "U+ABF8", "U+ABF9">>,
      <<"U+FF10", "U+FF11", "U+FF12", "U+FF13", "U+FF14",
        "U+FF15", "U+FF16", "U+FF17", "U+FF18", "U+FF19">>,
      <<"U+104A0", "U+104A1", "U+104A2", "U+104A3", "U+104A4",
        "U+104A5", "U+104A6", "U+104A7", "U+104A8", "U+104A9">>,
      <<"U+10D30", "U+10D31", "U+10D32", "U+10D33", "U+10D34",
        "U+10D35", "U+10D36", "U+10D37", "U+10D38", "U+10D39">>,
      <<"U+11066", "U+11067", "U+11068", "U+11069", "U+1106A",
        "U+1106B", "U+1106C", "U+1106D", "U+1106E", "U+1106F">>,
      <<"U+110F0", "U+110F1", "U+110F2", "U+110F3", "U+110F4",
        "U+110F5", "U+110F6", "U+110F7", "U+110F8", "U+110F9">>,
      <<"U+11136", "U+11137", "U+11138", "U+11139", "U+1113A",
        "U+1113B", "U+1113C", "U+1113D", "U+1113E", "U+1113F">>,
      <<"U+111D0", "U+111D1", "U+111D2", "U+111D3", "U+111D4",
        "U+111D5", "U+111D6", "U+111D7", "U+111D8", "U+111D9">>,
      <<"U+112F0", "U+112F1", "U+112F2", "U+112F3", "U+112F4",
        "U+112F5", "U+112F6", "U+112F7", "U+112F8", "U+112F9">>,
      <<"U+11450", "U+11451", "U+11452", "U+11453", "U+11454",
        "U+11455", "U+11456", "U+11457", "U+11458", "U+11459">>,
      <<"U+114D0", "U+114D1", "U+114D2", "U+114D3", "U+114D4",
        "U+114D5", "U+114D6", "U+114D7", "U+114D8", "U+114D9">>,
      <<"U+11650", "U+11651", "U+11652", "U+11653", "U+11654",
        "U+11655", "U+11656", "U+11657", "U+11658", "U+11659">>,
      <<"U+116C0", "U+116C1", "U+116C2", "U+116C3", "U+116C4",
        "U+116C5", "U+116C6", "U+116C7", "U+116C8", "U+116C9">>,
      <<"U+11730", "U+11731", "U+11732", "U+11733", "U+11734",
        "U+11735", "U+11736", "U+11737", "U+11738", "U+11739">>,
      <<"U+118E0", "U+118E1", "U+118E2", "U+118E3", "U+118E4",
        "U+118E5", "U+118E6", "U+118E7", "U+118E8", "U+118E9">>,
      <<"U+11950", "U+11951", "U+11952", "U+11953", "U+11954",
        "U+11955", "U+11956", "U+11957", "U+11958", "U+11959">>,
      <<"U+11C50", "U+11C51", "U+11C52", "U+11C53", "U+11C54",
        "U+11C55", "U+11C56", "U+11C57", "U+11C58", "U+11C59">>,
      <<"U+11D50", "U+11D51", "U+11D52", "U+11D53", "U+11D54",
        "U+11D55", "U+11D56", "U+11D57", "U+11D58", "U+11D59">>,
      <<"U+11DA0", "U+11DA1", "U+11DA2", "U+11DA3", "U+11DA4",
        "U+11DA5", "U+11DA6", "U+11DA7", "U+11DA8", "U+11DA9">>,
      <<"U+16A60", "U+16A61", "U+16A62", "U+16A63", "U+16A64",
        "U+16A65", "U+16A66", "U+16A67", "U+16A68", "U+16A69">>,
      <<"U+16AC0", "U+16AC1", "U+16AC2", "U+16AC3", "U+16AC4",
        "U+16AC5", "U+16AC6", "U+16AC7", "U+16AC8", "U+16AC9">>,
      <<"U+16B50", "U+16B51", "U+16B52", "U+16B53", "U+16B54",
        "U+16B55", "U+16B56", "U+16B57", "U+16B58", "U+16B59">>,
      <<"U+1D7CE", "U+1D7CF", "U+1D7D0", "U+1D7D1", "U+1D7D2",
        "U+1D7D3", "U+1D7D4", "U+1D7D5", "U+1D7D6", "U+1D7D7">>,
      <<"U+1D7D8", "U+1D7D9", "U+1D7DA", "U+1D7DB", "U+1D7DC",
        "U+1D7DD", "U+1D7DE", "U+1D7DF", "U+1D7E0", "U+1D7E1">>,
      <<"U+1D7E2", "U+1D7E3", "U+1D7E4", "U+1D7E5", "U+1D7E6",
        "U+1D7E7", "U+1D7E8", "U+1D7E9", "U+1D7EA", "U+1D7EB">>,
      <<"U+1D7EC", "U+1D7ED", "U+1D7EE", "U+1D7EF", "U+1D7F0",
        "U+1D7F1", "U+1D7F2", "U+1D7F3", "U+1D7F4", "U+1D7F5">>,
      <<"U+1D7F6", "U+1D7F7", "U+1D7F8", "U+1D7F9", "U+1D7FA",
        "U+1D7FB", "U+1D7FC", "U+1D7FD", "U+1D7FE", "U+1D7FF">>,
      <<"U+1E140", "U+1E141", "U+1E142", "U+1E143", "U+1E144",
        "U+1E145", "U+1E146", "U+1E147", "U+1E148", "U+1E149">>,
      <<"U+1E2F0", "U+1E2F1", "U+1E2F2", "U+1E2F3", "U+1E2F4",
        "U+1E2F5", "U+1E2F6", "U+1E2F7", "U+1E2F8", "U+1E2F9">>,
      <<"U+1E950", "U+1E951", "U+1E952", "U+1E953", "U+1E954",
        "U+1E955", "U+1E956", "U+1E957", "U+1E958", "U+1E959">>,
      <<"U+1FBF0", "U+1FBF1", "U+1FBF2", "U+1FBF3", "U+1FBF4",
        "U+1FBF5", "U+1FBF6", "U+1FBF7", "U+1FBF8", "U+1FBF9">>
    >>

Digits == UNION { {DecimalDigits[b][k] : k \in 1..10} : b \in 1..Len(DecimalDigits) }

\* int() of one digit
DigitValue ==
    [c \in Digits |->
        CHOOSE v \in 0..9 : \E b \in 1..Len(DecimalDigits) : DecimalDigits[b][v + 1] = c]

DigitVal(c) == DigitValue[c]

\* str.lower() on one character of an action group: a string, of two
\* characters for DottedI
Lower(c) ==
    CASE c = "F" -> <<"f">> [] c = "I" -> <<"i">> [] c = "X" -> <<"x">>
      [] c = "E" -> <<"e">> [] c = "S" -> <<"s">> [] c = "R" -> <<"r">>
      [] c = DottedI -> <<"i", CombiningDot>>
      [] OTHER -> <<c>>

\* does character c match the (lowercase) pattern letter p under re.IGNORECASE
IgnoreCaseEq(c, p) ==
    \/ Lower(c) = <<p>>
    \/ p = "s" /\ c = LongS
    \/ p = "i" /\ c \in {DotlessI, DottedI}

\* sys.get_int_max_str_digits(): the longest string of digits int() converts
INT_MAX_STR_DIGITS == 4300

\* does int() of a sequence of digits raise ValueError; every digit counts,
\* leading zeros too
IntRaises(ds) == Len(ds) > INT_MAX_STR_DIGITS

\* int() of a non-empty sequence of digits that it converts
RECURSIVE ToInt(_)
ToInt(ds) ==
    IF ds = <<>> THEN 0
    ELSE 10 * ToInt(SubSeq(ds, 1, Len(ds) - 1)) + DigitVal(ds[Len(ds)])

(***************************************************************************)
(* Commit.subject: message.splitlines()[0].  The empty message has no      *)
(* line, and the index raises IndexError.                                  *)
(***************************************************************************)
\* the line boundaries of str.splitlines()
LineBreaks ==
    { NL, "U+000B", "U+000C", "U+000D", "U+001C", "U+001D", "U+001E", "U+0085",
      "U+2028", "U+2029" }

\* the position of the first line boundary of s from position i on, or the
\* position after s
FirstBreak(s, i) ==
    LET breaks == {k \in i..Len(s) : s[k] \in LineBreaks}
    IN  IF breaks = {} THEN Len(s) + 1
        ELSE CHOOSE k \in breaks : \A j \in breaks : k <= j

SubjectRaises(message) == message = <<>>

subject(message) == SubSeq(message, 1, FirstBreak(message, 1) - 1)

(***************************************************************************)
(* COMMIT_VALID_SUMMARY_REGEX, written here with A* as A{0,}:             *)
(*   \A(?P<action>fixes|refs) (?P<issues>#(\d+)(, ?#(\d+)){0,})(:| -) .{0,}\Z *)
(* with re.IGNORECASE.  The pattern is deterministic, so the match is a    *)
(* left-to-right scan.  Positions are 1-based; 0 means no match.           *)
(***************************************************************************)
RECURSIVE MatchWord(_, _, _)
\* s matches the word w, case-insensitively, from position i of s on
MatchWord(s, w, i) ==
    IF i > Len(w) THEN TRUE
    ELSE /\ i <= Len(s)
         /\ IgnoreCaseEq(s[i], w[i])
         /\ MatchWord(s, w, i + 1)

\* length of the action group, 0 if neither alternative matches
ActionLen(s) ==
    IF MatchWord(s, <<"f", "i", "x", "e", "s">>, 1) THEN 5
    ELSE IF MatchWord(s, <<"r", "e", "f", "s">>, 1) THEN 4
    ELSE 0

\* the position after the longest run of digits starting at i: the first
\* position from i on that holds no digit
DigitsEnd(s, i) ==
    LET others == {k \in i..Len(s) : s[k] \notin Digits}
    IN  IF others # {} THEN CHOOSE k \in others : \A j \in others : k <= j
        ELSE IF i > Len(s) THEN i ELSE Len(s) + 1

\* one reference, # and digits, at position i: the position after it, 0 if it does not match
RefEnd(s, i) ==
    IF i <= Len(s) /\ s[i] = "#" /\ DigitsEnd(s, i + 1) > i + 1
    THEN DigitsEnd(s, i + 1)
    ELSE 0

RECURSIVE MoreRefsEnd(_, _)
\* the repeated group (comma, optional space, reference) from position i:
\* the position after the last repetition
MoreRefsEnd(s, i) ==
    IF i <= Len(s) /\ s[i] = ","
    THEN LET j == IF i + 1 <= Len(s) /\ s[i + 1] = " " THEN i + 2 ELSE i + 1
             e == RefEnd(s, j)
         IN  IF e = 0 THEN i ELSE MoreRefsEnd(s, e)
    ELSE i

\* the position after the issues group, which starts at position i; 0 if none
IssuesEnd(s, i) ==
    IF RefEnd(s, i) = 0 THEN 0 ELSE MoreRefsEnd(s, RefEnd(s, i))

\* the separator, a colon or space-dash, at position i: the position after it, 0 if it does not match
SepEnd(s, i) ==
    IF i <= Len(s) /\ s[i] = ":" THEN i + 1
    ELSE IF i + 1 <= Len(s) /\ s[i] = " " /\ s[i + 1] = "-" THEN i + 2
    ELSE 0

NoMatch == [matched |-> FALSE, action |-> <<>>, issues |-> <<>>]

\* the rest of the pattern after the separator, which ends before position
\* se: a space, then characters other than the newline up to the end
MatchRest(s, a, ie, se) ==
    IF se = 0 \/ se > Len(s) \/ s[se] # " " THEN NoMatch
    ELSE IF \E k \in se..Len(s) : s[k] = NL THEN NoMatch
    ELSE [matched |-> TRUE,
          action  |-> SubSeq(s, 1, a),
          issues  |-> SubSeq(s, a + 2, ie - 1)]

\* a pattern in which the separator and the description are optional
MatchSepMutant(s, a, ie) ==
    IF ie = 0 THEN NoMatch
    ELSE [matched |-> TRUE,
          action  |-> SubSeq(s, 1, a),
          issues  |-> SubSeq(s, a + 2, ie - 1)]

\* the separator, after the issues group, which ends before position ie
MatchSep(s, a, ie) ==
    IF ie = 0 THEN NoMatch ELSE MatchRest(s, a, ie, SepEnd(s, ie))

\* the space and the issues group, after an action group of length a
MatchIssues(s, a) ==
    IF a = 0 \/ a + 1 > Len(s) \/ s[a + 1] # " " THEN NoMatch
    ELSE MatchSep(s, a, IssuesEnd(s, a + 2))

\* The match of the whole pattern, with the action and issues groups.
\* The repetition does not backtrack into a shorter list: what follows a
\* complete reference is never the start of the separator.
RegexMatch(s) == MatchIssues(s, ActionLen(s))

\* one more id in front of the ids found after it
FoundBefore(ds, rest) ==
    IF IntRaises(ds) THEN [exc |-> "ValueError", ids |-> {}]
    ELSE IF rest.exc # None THEN rest
    ELSE [exc |-> None, ids |-> {ToInt(ds)} \cup rest.ids]

RECURSIVE FindAllIssues(_, _)
\* COMMIT_ISSUES_REGEX.findall(issues), each converted by int(): the ids,
\* or the exception of the first int() that raises
FindAllIssues(s, i) ==
    IF i > Len(s) THEN [exc |-> None, ids |-> {}]
    ELSE IF RefEnd(s, i) # 0
         THEN FoundBefore(SubSeq(s, i + 1, RefEnd(s, i) - 1),
                          FindAllIssues(s, RefEnd(s, i)))
         ELSE FindAllIssues(s, i + 1)

\* a parser that forgets lower() on the action group
LowerAllMutant(s) == s

\* str.lower()
RECURSIVE LowerAll(_)
LowerAll(s) == IF s = <<>> THEN <<>> ELSE Lower(Head(s)) \o LowerAll(Tail(s))

\* The attribute of Commit that getattr(commit, name) finds, None when it
\* raises AttributeError.
CommitAttr(name) ==
    IF name = <<"f", "i", "x", "e", "s">> THEN "fixes"
    ELSE IF name = <<"r", "e", "f", "s">> THEN "refs"
    ELSE None

(***************************************************************************)
(* One iteration of get_commits_from_pull_request: the Commit built from a *)
(* message, or the exception the iteration raises.                         *)
(***************************************************************************)
\* lines 103-105: getattr finds the set the action names, then the ids
\* are converted and added to it
AddIssues(attr, found) ==
    IF attr = None
    THEN [exc |-> "AttributeError", fixes |-> {}, refs |-> {}]
    ELSE IF found.exc # None
    THEN [exc |-> found.exc, fixes |-> {}, refs |-> {}]
    ELSE [exc   |-> None,
          fixes |-> IF attr = "fixes" THEN found.ids ELSE {},
          refs  |-> IF attr = "refs" THEN found.ids ELSE {}]

\* lines 102-105, given the match m
ParseMatch(m) ==
    IF ~m.matched THEN [exc |-> None, fixes |-> {}, refs |-> {}]
    ELSE AddIssues(CommitAttr(LowerAll(m.action)), FindAllIssues(m.issues, 1))

ParseCommit(message) ==
    IF SubjectRaises(message)
    THEN [exc |-> "IndexError", fixes |-> {}, refs |-> {}]
    ELSE ParseMatch(RegexMatch(subject(message)))

(***************************************************************************)
(* Configuration.  CONFIG is the table loaded from config/repos.yaml and   *)
(* USERS the one loaded from config/users.yaml; a repository full name     *)
(* owner/repo is kept as the pair of its two parts.                        *)
(***************************************************************************)
WHITELISTED_ORGANIZATIONS == {"theforeman", "Katello"}

Repo(owner, name) == [owner |-> owner, name |-> name]

\* Config(project, required, refs, version_prefix)
Config(project, required, refs, version_prefix) ==
    [project |-> project, required |-> required, refs |-> refs,
     version_prefix |-> version_prefix]

\* Config(): the defaults of the dataclass
DefaultConfig == Config(None, FALSE, {}, None)

ConfiguredRepos ==
    { Repo("theforeman", "foreman"), Repo("Katello", "katello"),
      Repo("someone", "plugin"), Repo("acme", "foo") }

CONFIG ==
    [r \in ConfiguredRepos |->
        CASE r = Repo("theforeman", "foreman") -> Config("foreman", TRUE, {}, None)
          [] r = Repo("Katello", "katello") -> Config("katello", FALSE, {"foreman"}, <<"K">>)
          [] r = Repo("someone", "plugin") -> Config("foreman", FALSE, {}, None)
          [] r = Repo("acme", "foo") -> Config("foo", FALSE, {"baz"}, None)]

\* the repositories events arrive for
Repos ==
    ConfiguredRepos \cup
    { Repo("theforeman", "unlisted"), Repo("katello", "katello"),
      Repo("someone", "foreman") }

USERS == [login \in {"alice"} |-> 7]

\* USERS.get(login): 0 stands for None
UsersGet(login) == IF login \in DOMAIN USERS THEN USERS[login] ELSE 0

\* repository.split('/', 1)[0]
RepoUser(repository) == repository.owner

\* a lookup that rejects every repository without an entry
get_configMutant(repository) ==
    IF repository \in DOMAIN CONFIG
    THEN [exc |-> None, config |-> CONFIG[repository]]
    ELSE [exc |-> "UnconfiguredRepository", config |-> DefaultConfig]

\* get_config: the Config returned, or the exception raised
get_config(repository) ==
    IF repository \in DOMAIN CONFIG
    THEN [exc |-> None, config |-> CONFIG[repository]]
    ELSE IF RepoUser(repository) \notin WHITELISTED_ORGANIZATIONS
         THEN [exc |-> "UnconfiguredRepository", config |-> DefaultConfig]
         ELSE [exc |-> None, config |-> DefaultConfig]

(***************************************************************************)
(* Titles, and pr_is_cherry_pick: title.startswith(('CP', '[CP]',          *)
(* 'Cherry picks for ')).                                                  *)
(***************************************************************************)
StartsWith(s, prefix) ==
    Len(s) >= Len(prefix) /\ SubSeq(s, 1, Len(prefix)) = prefix

CherryPickPrefixes ==
    { <<"C", "P">>, <<"[", "C", "P", "]">>,
      <<"C", "h", "e", "r", "r", "y", " ", "p", "i", "c", "k", "s", " ",
        "f", "o", "r", " ">> }

\* a test that knows the prefix CP only
pr_is_cherry_pickMutant(pull_request) ==
    StartsWith(pull_request.title, <<"C", "P">>)

pr_is_cherry_pick(pull_request) ==
    \E prefix \in CherryPickPrefixes : StartsWith(pull_request.title, prefix)

(***************************************************************************)
(* Redmine.  Status, IssueValidation and verify_issues are defined in      *)
(* prprocessor/redmine.py; they are modelled from their description.       *)
(***************************************************************************)
Statuses == {"NEW", "ASSIGNED", "READY_FOR_TESTING", "CLOSED", "REJECTED"}

is_rejected(status) == status = "REJECTED"
is_closed(status) == status = "CLOSED"

RECURSIVE SortedSeq(_)
\* the elements of a finite set of integers, ascending
SortedSeq(S) ==
    IF S = {} THEN <<>>
    ELSE LET m == CHOOSE x \in S : \A y \in S : x <= y
         IN  <<m>> \o SortedSeq(S \ {m})

\* The Issue object fetched for id i: a snapshot of the tracker's issue.
IssueObject(trk, i) ==
    [id |-> i, project |-> trk[i].project, status |-> trk[i].status,
     assigned_to |-> trk[i].assigned_to, prs |-> trk[i].prs]

NoResults ==
    [ok |-> FALSE, project |-> None, valid_issues |-> <<>>,
     invalid_project_issues |-> <<>>, missing_issue_ids |-> <<>>,
     invalid_commits |-> <<>>, issue_ids |-> {}]

\* verify_issues(config, issue_ids): the partition of the ids, each list
\* ascending by id; it needs the policy's project
verify_issues(cfg, issue_ids, trk) ==
    LET found   == {i \in issue_ids : trk[i].exists}
        valid   == {i \in found : trk[i].project = cfg.project
                                    \/ trk[i].project \in cfg.refs}
        objs(S) == [k \in 1..Cardinality(S) |-> IssueObject(trk, SortedSeq(S)[k])]
    IN  IF cfg.project = None
        THEN [exc |-> "UnknownProject", res |-> NoResults]
        ELSE [exc |-> None,
              res |-> [ok |-> TRUE,
                       project |-> cfg.project,
                       valid_issues |-> objs(valid),
                       invalid_project_issues |-> objs(found \ valid),
                       missing_issue_ids |-> SortedSeq(issue_ids \ found),
                       invalid_commits |-> <<>>, issue_ids |-> {}]]

(***************************************************************************)
(* get_issues_from_pr, after the commits were fetched: the commits are     *)
(* parsed in order, and the first exception ends the call.                 *)
(***************************************************************************)
Commits(pull_request) ==
    [k \in 1..Len(pull_request.commits) |->
        [sha |-> k, parse |-> ParseCommit(pull_request.commits[k])]]

RECURSIVE FirstExc(_, _)
\* the exception of the first commit that raises one, None if none does
FirstExc(cs, k) ==
    IF k > Len(cs) THEN None
    ELSE IF cs[k].parse.exc # None THEN cs[k].parse.exc
    ELSE FirstExc(cs, k + 1)

IssueIds(cs) ==
    UNION {cs[k].parse.fixes \cup cs[k].parse.refs : k \in 1..Len(cs)}

\* a test that looks at the fixes only
IsInvalidCommitMutant(cfg, parse) == cfg.required /\ parse.fixes = {}

\* line 164: is the commit appended to invalid_commits
IsInvalidCommit(cfg, parse) ==
    cfg.required /\ parse.fixes = {} /\ parse.refs = {}

RECURSIVE InvalidCommits(_, _, _)
\* the shas of the invalid commits, in the order of the pull request
InvalidCommits(cfg, cs, k) ==
    IF k > Len(cs) THEN <<>>
    ELSE (IF IsInvalidCommit(cfg, cs[k].parse) THEN <<cs[k].sha>> ELSE <<>>)
             \o InvalidCommits(cfg, cs, k + 1)

\* io is what the network does in this call: "ok", "github_error" (the
\* commits cannot be fetched) or "redmine_error" (the issues cannot be).
\* line 167: the pair returned, v being what verify_issues returned; the
\* local issue_ids is kept with it
Returned(v, issue_ids, invalid_commits) ==
    IF v.exc # None THEN [exc |-> v.exc, res |-> NoResults]
    ELSE [exc |-> None,
          res |-> [v.res EXCEPT !.invalid_commits = invalid_commits,
                                !.issue_ids = issue_ids]]

\* lines 158-167, c being what get_config returned and cs the parsed commits
IssuesOfCommits(c, cs, exc, trk, io) ==
    IF c.exc # None THEN [exc |-> c.exc, res |-> NoResults]
    ELSE IF io = "github_error" THEN [exc |-> "ClientError", res |-> NoResults]
    ELSE IF exc # None THEN [exc |-> exc, res |-> NoResults]
    ELSE IF io = "redmine_error" THEN [exc |-> "ConnectionError", res |-> NoResults]
    ELSE Returned(verify_issues(c.config, IssueIds(cs), trk), IssueIds(cs),
                  InvalidCommits(c.config, cs, 1))

\* io is what the network does in this call: "ok", "github_error" (the
\* commits cannot be fetched) or "redmine_error" (the issues cannot be).
ParsedIssues(c, cs, trk, io) == IssuesOfCommits(c, cs, FirstExc(cs, 1), trk, io)

get_issues_from_pr(pull_request, trk, io) ==
    ParsedIssues(get_config(pull_request.repo), Commits(pull_request), trk, io)

(***************************************************************************)
(* The retry loop of run_pull_request_check (lines 178-200).               *)
(***************************************************************************)
attempts == 3

\* line 186: the bare except re-raises on the last attempt only
ShouldRetry(a, exc) == a # attempts

\* a constant backoff
BackoffMutant(a) == 1

\* line 189: asyncio.sleep(attempt)
Backoff(a) == a

\* an outer try without the bare except clause
OuterCatchesMutant(exc) == exc = "UnconfiguredRepository"

\* lines 190 and 195: the two except clauses of the outer try catch every
\* exception
OuterCatches(exc) == TRUE

NoOutput == [title |-> None, summary |-> <<>>, hasText |-> FALSE, text |-> <<>>]

TextLine(s) == [line |-> "text", header |-> s, item |-> 0]
HeaderLine(h) == [line |-> "header", header |-> h, item |-> 0]
Bullet(h, x) == [line |-> "bullet", header |-> h, item |-> x]

\* lines 190-200: the output of the two except clauses
ErrorOutput(exc) ==
    IF exc = "UnconfiguredRepository"
    THEN [title |-> "Unknown repository",
          summary |-> <<TextLine("Contact us via Discourse")>>,
          hasText |-> FALSE, text |-> <<>>]
    ELSE [title |-> "Internal error while testing",
          summary |-> <<TextLine("Please retry later")>>,
          hasText |-> FALSE, text |-> <<>>]

(***************************************************************************)
(* The report (lines 207-229).                                             *)
(***************************************************************************)
\* sorted(): x put into the ascending sequence s, after the elements equal
\* to it
RECURSIVE InsertId(_, _)
InsertId(x, s) ==
    IF s = <<>> THEN <<x>>
    ELSE IF x < Head(s) THEN <<x>> \o s
    ELSE <<Head(s)>> \o InsertId(x, Tail(s))

RECURSIVE SortedIds(_)
SortedIds(ids) ==
    IF ids = <<>> THEN <<>>
    ELSE InsertId(ids[Len(ids)], SortedIds(SubSeq(ids, 1, Len(ids) - 1)))

\* format_redmine_issues: one line per issue, by ascending id
Ids(issues) == SortedIds([k \in 1..Len(issues) |-> issues[k].id])

Headers ==
    <<"Invalid commits", "Invalid project", "Issues not found in redmine",
      "Valid issues">>

\* the summary dict, as the sequence of its four lists in insertion order
Summary(res) ==
    <<res.invalid_commits, Ids(res.invalid_project_issues),
      res.missing_issue_ids, Ids(res.valid_issues)>>

\* line 214: the titles of the non-empty sections, in order
RECURSIVE NonEmpty(_, _)
NonEmpty(summary, k) ==
    IF k > Len(summary) THEN <<>>
    ELSE (IF summary[k] # <<>> THEN <<Headers[k]>> ELSE <<>>)
             \o NonEmpty(summary, k + 1)

\* a conclusion that needs a valid issue
ConclusionMutant(non_empty) ==
    IF non_empty = <<"Valid issues">> THEN "success" ELSE "failure"

\* line 216
Conclusion(non_empty) ==
    IF \E k \in 1..Len(non_empty) : non_empty[k] # "Valid issues"
    THEN "failure" ELSE "success"

\* summarize(summary, show_headers)
RECURSIVE summarize(_, _, _)
summarize(summary, show_headers, k) ==
    IF k > Len(summary) THEN <<>>
    ELSE (IF summary[k] = <<>> THEN <<>>
          ELSE (IF show_headers THEN <<HeaderLine(Headers[k])>> ELSE <<>>)
                   \o [j \in 1..Len(summary[k]) |-> Bullet(Headers[k], summary[k][j])])
             \o summarize(summary, show_headers, k + 1)

\* format_details: one block per issue of the wrong project
format_details(invalid_issues, correct_project) ==
    [k \in 1..Len(invalid_issues) |->
        [id |-> invalid_issues[k].id, from |-> invalid_issues[k].project,
         to |-> correct_project]]

\* lines 228-229: is output['text'] deleted
DropText(text, check_run) == text = <<>> /\ check_run.text = <<>>

BuildReport(res, check_run) ==
    LET summary   == Summary(res)
        non_empty == NonEmpty(summary, 1)
        multiple_sections == Len(non_empty) # 1
        text      == format_details(res.invalid_project_issues, res.project)
    IN  [conclusion |-> Conclusion(non_empty),
         output |-> [title |-> IF multiple_sections THEN "Redmine Issue Report"
                               ELSE non_empty[1],
                     summary |-> summarize(summary, multiple_sections, 1),
                     hasText |-> ~DropText(text, check_run),
                     text |-> text]]

(***************************************************************************)
(* update_redmine_on_issues (lines 245-280).  The updates dict is a record *)
(* whose fields are empty when the key is absent.                          *)
(***************************************************************************)
Contains(seq, x) == \E k \in 1..Len(seq) : seq[k] = x

NoUpdates == [custom_fields |-> <<>>, assigned_to_id |-> 0, status_id |-> None]

\* an update that appends the URL without looking for it
PrFieldUpdateMutant(pull_request, issue) ==
    IF ~pr_is_cherry_pick(pull_request)
    THEN <<issue.prs \o <<pull_request.url>>>>
    ELSE <<>>

\* lines 262-268: the new value of the pull request field, if it is updated
PrFieldUpdate(pull_request, issue) ==
    IF ~pr_is_cherry_pick(pull_request) /\ ~Contains(issue.prs, pull_request.url)
    THEN <<issue.prs \o <<pull_request.url>>>>
    ELSE <<>>

\* an update that sets the assignee whenever the author has a mapping
AssigneeUpdateMutant(pull_request, issue) == UsersGet(pull_request.login)

\* lines 270-271
AssigneeUpdate(pull_request, issue) ==
    IF UsersGet(pull_request.login) # 0 /\ issue.assigned_to = 0
    THEN UsersGet(pull_request.login)
    ELSE 0

\* lines 273-274
StatusUpdate(issue) ==
    IF ~(is_closed(issue.status) \/ issue.status = "READY_FOR_TESTING")
    THEN "READY_FOR_TESTING"
    ELSE None

\* lines 252-274: the updates computed for one issue
Updates(pull_request, issue) ==
    IF is_rejected(issue.status) THEN NoUpdates
    ELSE [custom_fields  |-> PrFieldUpdate(pull_request, issue),
          assigned_to_id |-> AssigneeUpdate(pull_request, issue),
          status_id      |-> StatusUpdate(issue)]

\* issue.save(**updates): Redmine sets the fields that are given
ApplySave(trk, id, u) ==
    [trk EXCEPT ![id] =
        [@ EXCEPT !.prs = IF u.custom_fields # <<>> THEN u.custom_fields[1] ELSE @,
                  !.assigned_to = IF u.assigned_to_id # 0 THEN u.assigned_to_id ELSE @,
                  !.status = IF u.status_id # None THEN u.status_id ELSE @]]

RECURSIVE ReconcileFrom(_, _, _, _, _)
\* The loop from its k-th iteration on; acc holds the tracker and the saves
\* made so far.  failAt is the iteration that raises (0: none does).
ReconcileFrom(pull_request, issues, k, failAt, acc) ==
    IF k > Len(issues) THEN [acc EXCEPT !.raised = FALSE]
    ELSE IF k = failAt THEN [acc EXCEPT !.raised = TRUE]
    ELSE LET u == Updates(pull_request, issues[k]) IN
         ReconcileFrom(pull_request, issues, k + 1, failAt,
             IF u = NoUpdates THEN acc
             ELSE [acc EXCEPT
                     !.tracker = ApplySave(acc.tracker, issues[k].id, u),
                     !.saves = Append(acc.saves, [id |-> issues[k].id, updates |-> u])])

update_redmine_on_issues(pull_request, issues, trk, failAt) ==
    ReconcileFrom(pull_request, issues, 1, failAt,
                  [tracker |-> trk, saves |-> <<>>, raised |-> FALSE])

\* a call of update_redmine_on_issues outside any try
ReconcileErrorPropagatesMutant(raised) == raised

\* lines 202-205: does an exception of update_redmine_on_issues leave
\* run_pull_request_check
ReconcileErrorPropagates(raised) == FALSE

(***************************************************************************)
(* set_check_in_progress (lines 110-128): the request it sends.            *)
(***************************************************************************)
NoCheckRun == [given |-> FALSE, id |-> 0, status |-> None, text |-> <<>>]

\* a transition that patches whatever the status of the handle
InProgressRequestMutant(check_run) ==
    IF check_run.given THEN "patch" ELSE "post"

InProgressRequest(check_run) ==
    IF check_run.given
    THEN IF check_run.status # "in_progress" THEN "patch" ELSE "none"
    ELSE "post"

NewRun == [status |-> "in_progress", conclusion |-> None, text |-> <<>>]

(***************************************************************************)
(* The handlers.  A handler runs run_pull_request_check(pull_request,      *)
(* check_run); its steps are the stretches between two awaits.             *)
(***************************************************************************)
Handlers == {"h1", "h2"}

NoReport == [conclusion |-> None, output |-> NoOutput]

\* a handler that can be suspended between the verification and the
\* reconciliation
SuspendedMutant(h) == TRUE

\* Is handler h suspended in an await, so that the event loop may run
\* another handler?  After get_issues_from_pr has returned (line 183),
\* update_redmine_on_issues (line 203) runs without any await on the way:
\* verify_issues and issue.save are plain calls.
Suspended(h) == pc[h] # "reconcile"

\* the event loop runs handler h: every other handler is suspended
EventLoop(h) == \A g \in Handlers \ {h} : Suspended(g)

\* await set_check_in_progress(pull_request, check_run)
SetCheckInProgress(h) ==
    /\ pc[h] = "start"
    /\ EventLoop(h)
    /\ LET req == InProgressRequest(arg[h]) IN
       /\ req = "patch" =>
            /\ runs' = [runs EXCEPT ![arg[h].id].status = "in_progress"]
            /\ handle' = [handle EXCEPT ![h] = arg[h]]
            /\ calls' = [calls EXCEPT ![h] =
                            Append(@, [op |-> "patch", id |-> arg[h].id,
                                       status |-> "in_progress"])]
       /\ req = "none" =>
            /\ handle' = [handle EXCEPT ![h] = arg[h]]
            /\ UNCHANGED <<runs, calls>>
       /\ req = "post" =>
            /\ runs' = Append(runs, NewRun)
            /\ handle' = [handle EXCEPT ![h] =
                             [given |-> TRUE, id |-> Len(runs) + 1,
                              status |-> "in_progress", text |-> <<>>]]
            /\ calls' = [calls EXCEPT ![h] =
                            Append(@, [op |-> "post", id |-> Len(runs) + 1,
                                       status |-> "in_progress"])]
    /\ pc' = [pc EXCEPT ![h] = "body"]
    /\ attempt' = [attempt EXCEPT ![h] = 1]
    /\ UNCHANGED <<pr, arg, tries, sleeps, config, results, recon, report, saves,
                   tracker, resaves, parseVars, mergeVars>>

IO == {"ok", "github_error", "redmine_error"}

\* line 183: the call returned r
Returns(h, r) ==
    /\ r.exc = None
    /\ results' = [results EXCEPT ![h] = r.res]

\* lines 185-189: the call raised, and it is not the last attempt
RaisesInLoop(h, r) ==
    /\ r.exc # None
    /\ ShouldRetry(attempt[h], r.exc)

\* lines 186-200: the call raised on the last attempt; conclusion is still
\* the 'failure' of line 176
RaisesOut(h, r) ==
    /\ r.exc # None
    /\ ~ShouldRetry(attempt[h], r.exc)
    /\ IF OuterCatches(r.exc)
       THEN /\ pc' = [pc EXCEPT ![h] = "complete"]
            /\ report' = [report EXCEPT ![h] =
                             [conclusion |-> "failure", output |-> ErrorOutput(r.exc)]]
       ELSE /\ pc' = [pc EXCEPT ![h] = "crashed"]
            /\ UNCHANGED report

\* get_issues_from_pr returns: the loop is left by break
BodySucceeds(h) ==
    /\ pc[h] = "body"
    /\ EventLoop(h)
    /\ \E io \in IO : Returns(h, get_issues_from_pr(pr[h], tracker, io))
    /\ config' = [config EXCEPT ![h] = get_config(pr[h].repo)]
    /\ tries' = [tries EXCEPT ![h] = @ + 1]
    /\ pc' = [pc EXCEPT ![h] = "reconcile"]
    /\ UNCHANGED <<pr, arg, handle, attempt, sleeps, recon, report, calls, saves,
                   runs, tracker, resaves, parseVars, mergeVars>>

\* get_issues_from_pr raises and the loop goes on after asyncio.sleep
BodyFailsRetry(h) ==
    /\ pc[h] = "body"
    /\ EventLoop(h)
    /\ \E io \in IO : RaisesInLoop(h, get_issues_from_pr(pr[h], tracker, io))
    /\ config' = [config EXCEPT ![h] = get_config(pr[h].repo)]
    /\ tries' = [tries EXCEPT ![h] = @ + 1]
    /\ sleeps' = [sleeps EXCEPT ![h] = Append(@, Backoff(attempt[h]))]
    /\ attempt' = [attempt EXCEPT ![h] = @ + 1]
    /\ UNCHANGED <<pr, arg, handle, pc, results, recon, report, calls, saves,
                   runs, tracker, resaves, parseVars, mergeVars>>

\* get_issues_from_pr raises and the exception reaches the outer try
BodyFailsFinal(h) ==
    /\ pc[h] = "body"
    /\ EventLoop(h)
    /\ \E io \in IO : RaisesOut(h, get_issues_from_pr(pr[h], tracker, io))
    /\ config' = [config EXCEPT ![h] = get_config(pr[h].repo)]
    /\ tries' = [tries EXCEPT ![h] = @ + 1]
    /\ UNCHANGED <<pr, arg, handle, attempt, sleeps, results, recon, calls, saves,
                   runs, tracker, resaves, parseVars, mergeVars>>

\* lines 202-229, r being the outcome of update_redmine_on_issues
Reconciled(h, r) ==
    /\ tracker' = r.tracker
    /\ saves' = [saves EXCEPT ![h] = r.saves]
    /\ recon' = [recon EXCEPT ![h] = IF r.raised THEN "failed" ELSE "ok"]
    /\ IF ReconcileErrorPropagates(r.raised)
       THEN /\ pc' = [pc EXCEPT ![h] = "crashed"]
            /\ UNCHANGED report
       ELSE /\ pc' = [pc EXCEPT ![h] = "complete"]
            /\ report' = [report EXCEPT ![h] = BuildReport(results[h], handle[h])]

\* an else clause that builds the report and leaves the reconciliation
\* for later
ReportBeforeReconcileMutant(h) ==
    /\ pc[h] = "reconcile"
    /\ pc' = [pc EXCEPT ![h] = "complete"]
    /\ report' = [report EXCEPT ![h] = BuildReport(results[h], handle[h])]
    /\ UNCHANGED <<pr, arg, handle, attempt, tries, sleeps, config, results, recon,
                   calls, saves, runs, tracker, resaves, parseVars, mergeVars>>

\* the else clause: update_redmine_on_issues, then the report is built
ReconcileAndReport(h) ==
    /\ pc[h] = "reconcile"
    /\ EventLoop(h)
    /\ \E failAt \in 0..Len(results[h].valid_issues) :
         Reconciled(h, update_redmine_on_issues(pr[h], results[h].valid_issues,
                                                tracker, failAt))
    /\ UNCHANGED <<pr, arg, handle, attempt, tries, sleeps, config, results, calls,
                   runs, resaves, parseVars, mergeVars>>

\* a patch that carries no status
CompletedMutant(run, rep) ==
    [status |-> run.status,
     conclusion |-> rep.conclusion,
     text |-> IF rep.output.hasText THEN rep.output.text ELSE run.text]

\* lines 234-241: the check run after the patch; GitHub keeps the text
\* when the output has none
Completed(run, rep) ==
    [status |-> "completed",
     conclusion |-> rep.conclusion,
     text |-> IF rep.output.hasText THEN rep.output.text ELSE run.text]

\* lines 231-242: the completed patch
CompletePatch(h) ==
    /\ pc[h] = "complete"
    /\ EventLoop(h)
    /\ runs' = [runs EXCEPT ![handle[h].id] = Completed(@, report[h])]
    /\ calls' = [calls EXCEPT ![h] =
                    Append(@, [op |-> "patch", id |-> handle[h].id,
                               status |-> "completed"])]
    /\ pc' = [pc EXCEPT ![h] = "done"]
    /\ UNCHANGED <<pr, arg, handle, attempt, tries, sleeps, config, results, recon,
                   report, saves, tracker, resaves, parseVars, mergeVars>>

(***************************************************************************)
(* The commit messages of SpecParse.  A message is the                     *)
(* concatenation of five parts, each drawn from a set that holds           *)
(* well-formed and ill-formed variants; the parts record what they stand   *)
(* for (the action word, the ids of the reference list), independently of  *)
(* the scan above.  The message of five empty parts is the empty message.  *)
(***************************************************************************)
ActionParts ==
    { [text |-> <<"f", "i", "x", "e", "s">>, word |-> "fixes"],
      [text |-> <<"F", "i", "x", "e", "s">>, word |-> "fixes"],
      [text |-> <<"F", "I", "X", "E", "S">>, word |-> "fixes"],
      [text |-> <<"f", "I", "x", "E", "s">>, word |-> "fixes"],
      [text |-> <<"r", "e", "f", "s">>, word |-> "refs"],
      [text |-> <<"R", "e", "f", "s">>, word |-> "refs"],
      [text |-> <<"R", "E", "F", "S">>, word |-> "refs"],
      [text |-> <<"f", "i", "x">>, word |-> None],
      [text |-> <<"f", "i", "x", "e", "d">>, word |-> None],
      [text |-> <<"f", "i", "x", "e", LongS>>, word |-> None],
      [text |-> <<"f", DotlessI, "x", "e", "s">>, word |-> None],
      [text |-> <<"F", DottedI, "X", "E", "S">>, word |-> None],
      [text |-> <<"r", "e", "f">>, word |-> None],
      [text |-> <<>>, word |-> None] }

SpaceParts == { <<" ">>, <<>>, <<" ", " ">> }

\* an id of one digit more than int() converts
LongId == [k \in 1..INT_MAX_STR_DIGITS + 1 |-> IF k = 1 THEN "0" ELSE "1"]

\* long: the list holds an id of more digits than int() converts
RefListParts ==
    { [text |-> <<"#", "1">>, ids |-> {1}, ok |-> TRUE, long |-> FALSE],
      [text |-> <<"#", "1", "2">>, ids |-> {12}, ok |-> TRUE, long |-> FALSE],
      [text |-> <<"#", "0", "0", "7">>, ids |-> {7}, ok |-> TRUE, long |-> FALSE],
      [text |-> <<"#", "1", ",", "#", "2">>, ids |-> {1, 2}, ok |-> TRUE, long |-> FALSE],
      [text |-> <<"#", "1", ",", " ", "#", "2">>, ids |-> {1, 2}, ok |-> TRUE, long |-> FALSE],
      [text |-> <<"#", "3", ",", " ", "#", "1", ",", "#", "3">>, ids |-> {1, 3},
       ok |-> TRUE, long |-> FALSE],
      [text |-> <<"#", "1", ",", " ", " ", "#", "2">>, ids |-> {}, ok |-> FALSE, long |-> FALSE],
      [text |-> <<"#", "1", " ", "#", "2">>, ids |-> {}, ok |-> FALSE, long |-> FALSE],
      [text |-> <<"#", "1", ",">>, ids |-> {}, ok |-> FALSE, long |-> FALSE],
      [text |-> <<"#">>, ids |-> {}, ok |-> FALSE, long |-> FALSE],
      [text |-> <<"1">>, ids |-> {}, ok |-> FALSE, long |-> FALSE],
      [text |-> <<"#", "U+0663">>, ids |-> {3}, ok |-> TRUE, long |-> FALSE],
      [text |-> <<"#", "1", "U+FF13">>, ids |-> {13}, ok |-> TRUE, long |-> FALSE],
      [text |-> <<"#">> \o LongId, ids |-> {}, ok |-> TRUE, long |-> TRUE],
      [text |-> <<"#", "1", ",", "#">> \o LongId, ids |-> {}, ok |-> TRUE,
       long |-> TRUE],
      [text |-> <<"#", "U+00B2">>, ids |-> {}, ok |-> FALSE, long |-> FALSE],
      [text |-> <<"#", "a">>, ids |-> {}, ok |-> FALSE, long |-> FALSE],
      [text |-> <<>>, ids |-> {}, ok |-> FALSE, long |-> FALSE] }

SepParts ==
    { [text |-> <<":">>, ok |-> TRUE],
      [text |-> <<" ", "-">>, ok |-> TRUE],
      [text |-> <<>>, ok |-> FALSE],
      [text |-> <<"-">>, ok |-> FALSE],
      [text |-> <<" ", ":">>, ok |-> FALSE],
      [text |-> <<";">>, ok |-> FALSE] }

RestParts ==
    { <<" ", "x">>,
      <<" ">>,
      <<"x">>,
      <<>>,
      <<" ", "x", NL, "f", "i", "x", "e", "s", " ", "#", "9", ":", " ", "y">>,
      <<NL, "f", "i", "x", "e", "s", " ", "#", "9", ":", " ", "y">>,
      <<" ", "x", "U+000D", NL, "y">>,
      <<"U+2028", " ", "x">> }

Message(p) == p.action.text \o p.space \o p.refs.text \o p.sep.text \o p.rest

NotParsed == [done |-> FALSE, exc |-> None, fixes |-> {}, refs |-> {}]

(***************************************************************************)
(* Spec: one pull_request event handled by run_pull_request_check.         *)
(***************************************************************************)
MaxCommits == 2

MsgFixes1 == <<"f", "i", "x", "e", "s", " ", "#", "1", ":", " ", "x">>
MsgRefs2  == <<"R", "e", "f", "s", " ", "#", "2", " ", "-", " ", "y">>
MsgFixes3 == <<"F", "I", "X", "E", "S", " ", "#", "3", ",", "#", "1", ":", " ", "z">>
MsgNoRef  == <<"w", "i", "p">>
MsgEmpty  == <<>>

FlowMessages == {MsgFixes1, MsgRefs2, MsgFixes3, MsgNoRef, MsgEmpty}

CommitLists == UNION {[1..n -> FlowMessages] : n \in 0..MaxCommits}

TitlePlain  == <<"F", "i", "x", " ", "x">>
TitleCP     == <<"C", "P", " ", "x">>
TitleBrCP   == <<"[", "C", "P", "]", " ", "x">>
TitlePicks  == <<"C", "h", "e", "r", "r", "y", " ", "p", "i", "c", "k", "s", " ",
                 "f", "o", "r", " ", "1">>
TitleLower  == <<"c", "p", " ", "x">>
TitleInside == <<"x", " ", "C", "P">>

NoPullRequest ==
    [repo |-> Repo("", ""), commits |-> <<>>, title |-> <<>>, url |-> "",
     login |-> ""]

FlowPullRequests ==
    { [repo |-> r, commits |-> cs, title |-> a.title, url |-> "pr1",
       login |-> a.login] :
         r \in Repos, cs \in CommitLists,
         a \in { [title |-> TitlePlain, login |-> "alice"],
                 [title |-> TitleCP, login |-> "bob"] } }

PriorText == <<[id |-> 2, from |-> "katello", to |-> "foreman"]>>

\* the check_run argument: none, or the check run of an earlier event
CheckRunArgs ==
    { NoCheckRun,
      [given |-> TRUE, id |-> 1, status |-> "queued", text |-> <<>>],
      [given |-> TRUE, id |-> 1, status |-> "in_progress", text |-> PriorText],
      [given |-> TRUE, id |-> 1, status |-> "completed", text |-> <<>>],
      [given |-> TRUE, id |-> 1, status |-> "completed", text |-> PriorText] }

IssueUniverse == {1, 2, 3}

Missing ==
    [exists |-> FALSE, project |-> None, status |-> None, assigned_to |-> 0,
     prs |-> <<>>]

IssueRec(project, status, assigned_to, prs) ==
    [exists |-> TRUE, project |-> project, status |-> status,
     assigned_to |-> assigned_to, prs |-> prs]

FlowTrackers ==
    { [i \in IssueUniverse |->
          CASE i = 1 -> IssueRec("foreman", s, 0, p)
            [] i = 2 -> IssueRec("katello", "ASSIGNED", 9, <<>>)
            [] i = 3 -> Missing] :
      s \in {"NEW", "REJECTED"}, p \in {<<>>, <<"pr1">>} }

\* no webhook event; a run_pull_request_check that was called directly
NoEvent == [kind |-> None, left |-> 0]

\* on_pr_merge has not run
NoMerge == [version_prefix |-> None, issue_ids |-> {}, requests |-> <<>>]

\* a Redmine without projects
NoVersions == <<>>

\* the variables of the handlers before any event
HandlersIdle(p, a, start) ==
    /\ pr = [h \in Handlers |-> IF h = "h1" THEN p ELSE NoPullRequest]
    /\ arg = [h \in Handlers |-> IF h = "h1" THEN a ELSE NoCheckRun]
    /\ handle = [h \in Handlers |-> NoCheckRun]
    /\ pc = [h \in Handlers |-> IF h = "h1" THEN start ELSE "idle"]
    /\ attempt = [h \in Handlers |-> 0]
    /\ tries = [h \in Handlers |-> 0]
    /\ sleeps = [h \in Handlers |-> <<>>]
    /\ config = [h \in Handlers |-> [exc |-> None, config |-> DefaultConfig]]
    /\ results = [h \in Handlers |-> NoResults]
    /\ recon = [h \in Handlers |-> "none"]
    /\ report = [h \in Handlers |-> NoReport]
    /\ calls = [h \in Handlers |-> <<>>]
    /\ saves = [h \in Handlers |-> <<>>]
    /\ resaves = <<>>
    /\ event = [h \in Handlers |-> NoEvent]
    /\ merge = [h \in Handlers |-> NoMerge]
    /\ versions = NoVersions

ParseIdle ==
    /\ pmsg = [action |-> [text |-> <<>>, word |-> None], space |-> <<>>,
               refs |-> [text |-> <<>>, ids |-> {}, ok |-> FALSE],
               sep |-> [text |-> <<>>, ok |-> FALSE], rest |-> <<>>]
    /\ parsed = NotParsed

Init ==
    /\ \E p \in FlowPullRequests, a \in CheckRunArgs :
         /\ HandlersIdle(p, a, "start")
         /\ runs = IF a.given
                   THEN <<[status |-> a.status,
                           conclusion |-> IF a.status = "completed"
                                          THEN "failure" ELSE None,
                           text |-> a.text]>>
                   ELSE <<>>
    /\ tracker \in FlowTrackers
    /\ ParseIdle

Next ==
    \E h \in Handlers :
        \/ SetCheckInProgress(h)
        \/ BodySucceeds(h)
        \/ BodyFailsRetry(h)
        \/ BodyFailsFinal(h)
        \/ ReconcileAndReport(h)
        \/ CompletePatch(h)

Spec == Init /\ [][Next]_vars

(***************************************************************************)
(* SpecScenario: run_pull_request_check on a pull request of one commit    *)
(* that names issue 55, for a repository whose project is foo.             *)
(***************************************************************************)
Msg55Bare  == <<"f", "i", "x", "e", "s", " ", "#", "5", "5">>
Msg55Colon == <<"f", "i", "x", "e", "s", " ", "#", "5", "5", ":", " ", "x">>
Msg55Dash  == <<"F", "i", "x", "e", "s", " ", "#", "5", "5", " ", "-", " ", "x">>

ScenarioMessages == {Msg55Bare, Msg55Colon, Msg55Dash}

ScenarioPullRequests ==
    { [repo |-> Repo("acme", "foo"), commits |-> <<m>>, title |-> TitlePlain,
       url |-> "pr1", login |-> l] :
         m \in ScenarioMessages, l \in {"alice", "bob"} }

\* issue 55 in the project bar, in the policy's project, in an accepted
\* extra project, or not in Redmine
ScenarioTrackers ==
    { [i \in {55} |-> IssueRec("bar", "NEW", 0, <<>>)],
      [i \in {55} |-> IssueRec("foo", "NEW", 0, <<>>)],
      [i \in {55} |-> IssueRec("baz", "NEW", 0, <<>>)],
      [i \in {55} |-> Missing] }

ScenarioInit ==
    /\ \E p \in ScenarioPullRequests, a \in CheckRunArgs :
         /\ HandlersIdle(p, a, "start")
         /\ runs = IF a.given
                   THEN <<[status |-> a.status,
                           conclusion |-> IF a.status = "completed"
                                          THEN "failure" ELSE None,
                           text |-> a.text]>>
                   ELSE <<>>
    /\ tracker \in ScenarioTrackers
    /\ ParseIdle

SpecScenario == ScenarioInit /\ [][Next]_vars

(***************************************************************************)
(* SpecSync: update_redmine_on_issues run twice on the same pull request,  *)
(* the issues fetched again before the second run.                         *)
(***************************************************************************)
SyncPullRequests ==
    { [repo |-> Repo("theforeman", "foreman"), commits |-> <<>>, title |-> t,
       url |-> "pr1", login |-> l] :
         t \in {TitlePlain, TitleCP, TitleBrCP, TitlePicks, TitleLower, TitleInside},
         l \in {"alice", "bob"} }

SyncTrackers ==
    { [i \in IssueUniverse |->
          CASE i = 1 -> IssueRec("foreman", s1, a1, p1)
            [] i = 2 -> IssueRec("foreman", s2, a2, p2)
            [] i = 3 -> Missing] :
      s1 \in Statuses, a1 \in {0, 7, 9},
      p1 \in {<<>>, <<"pr1">>, <<"pr2">>, <<"pr2", "pr1">>},
      s2 \in {"NEW", "CLOSED"}, a2 \in {0, 9}, p2 \in {<<>>, <<"pr1", "pr2">>} }

Fetch(trk, ids) ==
    [k \in 1..Cardinality(ids) |-> IssueObject(trk, SortedSeq(ids)[k])]

SyncInit ==
    /\ \E p \in SyncPullRequests : HandlersIdle(p, NoCheckRun, "sync1")
    /\ runs = <<>>
    /\ tracker \in SyncTrackers
    /\ ParseIdle

IdSet(issues) == {issues[k].id : k \in 1..Len(issues)}

Synced(h, r) ==
    /\ tracker' = r.tracker
    /\ saves' = [saves EXCEPT ![h] = r.saves]

Resynced(r) ==
    /\ tracker' = r.tracker
    /\ resaves' = r.saves

\* the first run, on any set of the issues that exist
FirstSync(h) ==
    /\ pc[h] = "sync1"
    /\ \E ids \in SUBSET {1, 2} :
         /\ results' = [results EXCEPT ![h].valid_issues = Fetch(tracker, ids)]
         /\ Synced(h, update_redmine_on_issues(pr[h], Fetch(tracker, ids), tracker, 0))
    /\ pc' = [pc EXCEPT ![h] = "sync2"]
    /\ UNCHANGED <<pr, arg, handle, attempt, tries, sleeps, config, recon, report,
                   calls, runs, resaves, parseVars, mergeVars>>

\* the second run, on the same issues as Redmine now has them
SecondSync(h) ==
    /\ pc[h] = "sync2"
    /\ Resynced(update_redmine_on_issues(
                    pr[h], Fetch(tracker, IdSet(results[h].valid_issues)), tracker, 0))
    /\ pc' = [pc EXCEPT ![h] = "synced"]
    /\ UNCHANGED <<pr, arg, handle, attempt, tries, sleeps, config, results, recon,
                   report, calls, saves, runs, parseVars, mergeVars>>

SyncNext == \E h \in Handlers : FirstSync(h) \/ SecondSync(h)

SpecSync == SyncInit /\ [][SyncNext]_vars

(***************************************************************************)
(* on_pr_merge (lines 324-384).  Branch and version names are strings of   *)
(* characters.  strip_suffix is defined in prprocessor/compat.py, and      *)
(* get_redmine, get_latest_open_version, get_issues and                    *)
(* set_fixed_in_version in prprocessor/redmine.py; they are modelled from  *)
(* their description.                                                      *)
(***************************************************************************)
EndsWith(s, suffix) ==
    Len(s) >= Len(suffix)
        /\ SubSeq(s, Len(s) - Len(suffix) + 1, Len(s)) = suffix

StableSuffix == <<"-", "s", "t", "a", "b", "l", "e">>

\* strip_suffix(s, suffix)
strip_suffix(s, suffix) ==
    IF EndsWith(s, suffix) THEN SubSeq(s, 1, Len(s) - Len(suffix)) ELSE s

\* line 347
DevelopmentBranches ==
    { <<"m", "a", "i", "n">>,
      <<"m", "a", "s", "t", "e", "r">>,
      <<"d", "e", "v", "e", "l", "o", "p">>,
      <<"d", "e", "b", "/", "d", "e", "v", "e", "l", "o", "p">>,
      <<"r", "p", "m", "/", "d", "e", "v", "e", "l", "o", "p">> }

\* a test that takes every branch for a development branch
BranchPrefixMutant(target_branch) == [ok |-> TRUE, prefix |-> <<>>]

\* lines 343-353: the version prefix of the target branch, if the branch
\* is one the handler acts on
BranchPrefix(target_branch) ==
    IF EndsWith(target_branch, StableSuffix)
    THEN [ok |-> TRUE, prefix |-> strip_suffix(target_branch, StableSuffix) \o <<".">>]
    ELSE IF target_branch \in DevelopmentBranches
         THEN [ok |-> TRUE, prefix |-> <<>>]
         ELSE [ok |-> FALSE, prefix |-> <<>>]

\* lines 363-364: the prefix of the policy goes first; None and the empty
\* string are both false
ConfigPrefix(cfg, version_prefix) ==
    IF cfg.version_prefix # None /\ cfg.version_prefix # <<>>
    THEN cfg.version_prefix \o version_prefix
    ELSE version_prefix

\* lines 337-364: does the handler go on to fetch the commits, and with
\* which version prefix; c is what get_config returned
MergeProceeds(pull_request, b, c) ==
    IF ~pull_request.merged \/ ~b.ok \/ c.exc # None \/ c.config.project = None
    THEN [ok |-> FALSE, prefix |-> <<>>]
    ELSE [ok |-> TRUE, prefix |-> ConfigPrefix(c.config, b.prefix)]

\* a handler that gathers the refs as well
FixesIdsMutant(cs) == IssueIds(cs)

\* lines 366-368: the ids of the fixes of all commits
FixesIds(cs) == UNION {cs[k].parse.fixes : k \in 1..Len(cs)}

NoVersion == [found |-> FALSE, name |-> <<>>]

RECURSIVE LatestFrom(_, _, _)
\* the last open version among the first k whose name starts with the prefix
LatestFrom(vs, prefix, k) ==
    IF k = 0 THEN NoVersion
    ELSE IF vs[k].open /\ StartsWith(vs[k].name, prefix)
         THEN [found |-> TRUE, name |-> vs[k].name]
         ELSE LatestFrom(vs, prefix, k - 1)

\* get_latest_open_version(project, version_prefix), vs being the versions
\* of the project, oldest first
get_latest_open_version(vs, version_prefix) ==
    LatestFrom(vs, version_prefix, Len(vs))

\* get_issues(redmine, issue_ids): the issues that exist, ascending by id
get_issues(trk, issue_ids) == Fetch(trk, {i \in issue_ids : trk[i].exists})

\* set_fixed_in_version(issue, version)
set_fixed_in_version(trk, id, version) ==
    [trk EXCEPT ![id].fixed_version = version.name]

RECURSIVE SetVersionsFrom(_, _, _, _, _)
\* lines 380-384 from the k-th issue on
SetVersionsFrom(issues, k, project, version, acc) ==
    IF k > Len(issues) THEN acc
    ELSE SetVersionsFrom(issues, k + 1, project, version,
             IF issues[k].project = project
             THEN [acc EXCEPT
                     !.tracker = set_fixed_in_version(acc.tracker, issues[k].id, version),
                     !.saves = Append(acc.saves,
                                      [id |-> issues[k].id,
                                       fixed_version |-> version.name])]
             ELSE acc)

\* lines 373-384, after redmine.project.get returned the project
MergeWithProject(project, version, issue_ids, trk) ==
    IF ~version.found
    THEN [pc |-> "done", requests |-> <<"project", "versions">>,
          tracker |-> trk, saves |-> <<>>]
    ELSE SetVersionsFrom(get_issues(trk, issue_ids), 1, project, version,
             [pc |-> "done", requests |-> <<"project", "versions", "issues">>,
              tracker |-> trk, saves |-> <<>>])

\* lines 370-384: Redmine is contacted only with an id
MergeWithIds(project, prefix, issue_ids, trk, vers, io) ==
    IF issue_ids = {}
    THEN [pc |-> "done", requests |-> <<>>, tracker |-> trk, saves |-> <<>>]
    ELSE IF io = "redmine_error" \/ project \notin DOMAIN vers
    THEN [pc |-> "crashed", requests |-> <<"project">>, tracker |-> trk,
          saves |-> <<>>]
    ELSE MergeWithProject(project, get_latest_open_version(vers[project], prefix),
                          issue_ids, trk)

\* lines 366-384; an exception of the fetch or of the parser leaves the handler
MergeOutcome(cs, exc, project, prefix, trk, vers, io) ==
    IF io = "github_error" \/ exc # None
    THEN [pc |-> "crashed", requests |-> <<>>, tracker |-> trk, saves |-> <<>>]
    ELSE MergeWithIds(project, prefix, FixesIds(cs), trk, vers, io)

\* lines 337-364: the tests before the commits are fetched
MergeGate(h) ==
    /\ pc[h] = "merge_gate"
    /\ LET b == BranchPrefix(pr[h].base_ref)
           c == IF pr[h].merged /\ b.ok THEN get_config(pr[h].repo) ELSE config[h]
           m == MergeProceeds(pr[h], b, c)
       IN  /\ config' = [config EXCEPT ![h] = c]
           /\ merge' = [merge EXCEPT ![h].version_prefix =
                                        IF m.ok THEN m.prefix ELSE None]
           /\ pc' = [pc EXCEPT ![h] = IF m.ok THEN "merge_commits" ELSE "done"]
    /\ UNCHANGED <<pr, arg, handle, attempt, tries, sleeps, results, recon, report,
                   calls, saves, runs, tracker, resaves, parseVars, event, versions>>

\* the outcome r of lines 366-384 takes effect
Merged(h, r, ids) ==
    /\ pc' = [pc EXCEPT ![h] = r.pc]
    /\ merge' = [merge EXCEPT ![h].issue_ids = ids, ![h].requests = r.requests]
    /\ tracker' = r.tracker
    /\ saves' = [saves EXCEPT ![h] = r.saves]

\* lines 366-384: the commits arrive, and the fix version is set
MergeCommits(h) ==
    /\ pc[h] = "merge_commits"
    /\ \E io \in IO :
         Merged(h, MergeOutcome(Commits(pr[h]), FirstExc(Commits(pr[h]), 1),
                                config[h].config.project,
                                merge[h].version_prefix, tracker, versions, io),
                IF io = "github_error" \/ FirstExc(Commits(pr[h]), 1) # None
                THEN {} ELSE FixesIds(Commits(pr[h])))
    /\ UNCHANGED <<pr, arg, handle, attempt, tries, sleeps, config, results, recon,
                   report, calls, runs, resaves, parseVars, event, versions>>

(***************************************************************************)
(* SpecMerge: one pull_request closed event handled by on_pr_merge.        *)
(***************************************************************************)
BrMain       == <<"m", "a", "i", "n">>
BrMaster     == <<"m", "a", "s", "t", "e", "r">>
BrDevelop    == <<"d", "e", "v", "e", "l", "o", "p">>
BrDebDevelop == <<"d", "e", "b", "/", "d", "e", "v", "e", "l", "o", "p">>
BrRpmDevelop == <<"r", "p", "m", "/", "d", "e", "v", "e", "l", "o", "p">>
Br30Stable   == <<"3", ".", "0", "-", "s", "t", "a", "b", "l", "e">>
BrStable     == <<"-", "s", "t", "a", "b", "l", "e">>
BrFeature    == <<"f", "e", "a", "t", "u", "r", "e">>
BrUpperMain  == <<"M", "a", "i", "n">>
BrStableFix  == <<"3", ".", "0", "-", "s", "t", "a", "b", "l", "e", "-", "f", "i", "x">>

Branches ==
    { BrMain, BrMaster, BrDevelop, BrDebDevelop, BrRpmDevelop, Br30Stable,
      BrStable, BrFeature, BrUpperMain, BrStableFix }

V304 == <<"3", ".", "0", ".", "4">>
V305 == <<"3", ".", "0", ".", "5">>
V310 == <<"3", ".", "1", ".", "0">>
VK301 == <<"K", "3", ".", "0", ".", "1">>

Version(name, open) == [name |-> name, open |-> open]

\* the versions of the projects of Redmine, oldest first; the project foo
\* is not in Redmine
MergeVersions ==
    { [p \in {"foreman", "katello"} |->
          IF p = "foreman"
          THEN <<Version(V304, FALSE), Version(V305, TRUE), Version(V310, TRUE)>>
          ELSE <<Version(VK301, TRUE)>>],
      [p \in {"foreman", "katello"} |->
          IF p = "foreman"
          THEN <<Version(V305, FALSE)>>
          ELSE <<>>] }

MergeIssueRec(project) ==
    [exists |-> TRUE, project |-> project, status |-> "NEW", assigned_to |-> 0,
     prs |-> <<>>, fixed_version |-> None]

MergeMissing ==
    [exists |-> FALSE, project |-> None, status |-> None, assigned_to |-> 0,
     prs |-> <<>>, fixed_version |-> None]

MergeTrackers ==
    { [i \in IssueUniverse |->
          CASE i = 1 -> MergeIssueRec("foreman")
            [] i = 2 -> MergeIssueRec("foreman")
            [] i = 3 -> MergeIssueRec("katello")],
      [i \in IssueUniverse |->
          CASE i = 1 -> MergeIssueRec("katello")
            [] i = 2 -> MergeIssueRec("katello")
            [] i = 3 -> MergeMissing] }

MergePullRequests ==
    { [repo |-> r, commits |-> cs, title |-> TitlePlain, url |-> "pr1",
       login |-> "alice", merged |-> m, base_ref |-> b] :
         r \in Repos, cs \in CommitLists, m \in BOOLEAN, b \in Branches }

MergeInit ==
    /\ \E p \in MergePullRequests :
         /\ pr = [h \in Handlers |-> IF h = "h1" THEN p ELSE NoPullRequest]
    /\ pc = [h \in Handlers |-> IF h = "h1" THEN "merge_gate" ELSE "idle"]
    /\ event = [h \in Handlers |->
                  IF h = "h1" THEN [kind |-> "closed", left |-> 0] ELSE NoEvent]
    /\ arg = [h \in Handlers |-> NoCheckRun]
    /\ handle = [h \in Handlers |-> NoCheckRun]
    /\ attempt = [h \in Handlers |-> 0]
    /\ tries = [h \in Handlers |-> 0]
    /\ sleeps = [h \in Handlers |-> <<>>]
    /\ config = [h \in Handlers |-> [exc |-> None, config |-> DefaultConfig]]
    /\ results = [h \in Handlers |-> NoResults]
    /\ recon = [h \in Handlers |-> "none"]
    /\ report = [h \in Handlers |-> NoReport]
    /\ calls = [h \in Handlers |-> <<>>]
    /\ saves = [h \in Handlers |-> <<>>]
    /\ resaves = <<>>
    /\ merge = [h \in Handlers |-> NoMerge]
    /\ runs = <<>>
    /\ tracker \in MergeTrackers
    /\ versions \in MergeVersions
    /\ ParseIdle

MergeNext == \E h \in Handlers : MergeGate(h) \/ MergeCommits(h)

SpecMerge == MergeInit /\ [][MergeNext]_vars

(***************************************************************************)
(* SpecConc: two webhook events handled concurrently by on_pr_modified,    *)
(* on_check_run and on_suite_run (lines 283-321).  event[h].left is the    *)
(* number of pull requests of the event that were not handled yet.         *)
(***************************************************************************)
CHECK_NAME == "Redmine issues"

\* the check_run of a payload or of a response: a copy of check run id
CheckRunOf(id, status, text) ==
    [given |-> TRUE, id |-> id, status |-> status, text |-> text]

\* lines 310-314: the first check run of the suite that has the name of
\* this check; every check run of the model has it
SuiteCheckRun(rs) ==
    IF rs = <<>> THEN NoCheckRun ELSE CheckRunOf(1, rs[1].status, rs[1].text)

\* run_pull_request_check(pull_request, check_run) is called: its locals
\* are fresh
Call(h, check_run) ==
    /\ arg' = [arg EXCEPT ![h] = check_run]
    /\ handle' = [handle EXCEPT ![h] = NoCheckRun]
    /\ attempt' = [attempt EXCEPT ![h] = 0]
    /\ tries' = [tries EXCEPT ![h] = 0]
    /\ sleeps' = [sleeps EXCEPT ![h] = <<>>]
    /\ results' = [results EXCEPT ![h] = NoResults]
    /\ recon' = [recon EXCEPT ![h] = "none"]
    /\ report' = [report EXCEPT ![h] = NoReport]
    /\ pc' = [pc EXCEPT ![h] = "start"]

\* a handler that loops over the pull requests of its event: with none it
\* returns, else it calls run_pull_request_check for the first
Loop(h, check_run) ==
    IF event[h].left = 0
    THEN /\ pc' = [pc EXCEPT ![h] = "done"]
         /\ arg' = [arg EXCEPT ![h] = check_run]
         /\ UNCHANGED <<handle, attempt, tries, sleeps, results, recon, report, event>>
    ELSE /\ Call(h, check_run)
         /\ event' = [event EXCEPT ![h].left = @ - 1]

\* lines 283-286
on_pr_modified(h) ==
    /\ pc[h] = "idle"
    /\ event[h].kind = "pull_request"
    /\ EventLoop(h)
    /\ Loop(h, NoCheckRun)
    /\ UNCHANGED <<pr, config, calls, saves, runs, tracker, resaves, parseVars,
                   merge, versions>>

\* the status a check_run payload can carry: the payload is a copy made
\* when the event was sent
PayloadStatuses == {"in_progress", "completed"}

\* lines 289-299: the check_run of the payload is the handle of every call
on_check_run(h) ==
    /\ pc[h] = "idle"
    /\ event[h].kind = "check_run"
    /\ EventLoop(h)
    /\ runs # <<>>
    /\ \E status \in PayloadStatuses : Loop(h, CheckRunOf(1, status, runs[1].text))
    /\ UNCHANGED <<pr, config, calls, saves, runs, tracker, resaves, parseVars,
                   merge, versions>>

\* lines 302-321: the check runs of the suite are fetched, and the one of
\* this check, if there is one, is the handle of every call
on_suite_run(h) ==
    /\ pc[h] = "idle"
    /\ event[h].kind = "check_suite"
    /\ EventLoop(h)
    /\ Loop(h, SuiteCheckRun(runs))
    /\ UNCHANGED <<pr, config, calls, saves, runs, tracker, resaves, parseVars,
                   merge, versions>>

\* lines 297-299 and 319-321: the next iteration of the loop, with the
\* check_run the handler already has
NextPullRequest(h) ==
    /\ pc[h] = "done"
    /\ event[h].left > 0
    /\ EventLoop(h)
    /\ Call(h, arg[h])
    /\ event' = [event EXCEPT ![h].left = @ - 1]
    /\ UNCHANGED <<pr, config, calls, saves, runs, tracker, resaves, parseVars,
                   merge, versions>>

ConcPullRequest(url, login) ==
    [repo |-> Repo("theforeman", "foreman"), commits |-> <<MsgFixes1>>,
     title |-> TitlePlain, url |-> url, login |-> login]

\* the pull requests of the two events: the same one, or two that fix the
\* same issue
ConcPullRequests ==
    { [h \in Handlers |-> ConcPullRequest("pr1", "alice")],
      [h \in Handlers |->
          IF h = "h1" THEN ConcPullRequest("pr1", "alice")
          ELSE ConcPullRequest("pr2", "bob")] }

MaxPulls == 2

ConcEvents ==
    { [kind |-> "pull_request", left |-> 1] }
        \cup { [kind |-> "check_run", left |-> n] : n \in {0, MaxPulls} }
        \cup { [kind |-> "check_suite", left |-> 1] }

\* the check runs of the commit when the events arrive
ConcRuns ==
    { <<>>,
      <<[status |-> "completed", conclusion |-> "failure", text |-> PriorText]>> }

\* Redmine when the events arrive: no pull request is linked to issue 1
ConcTracker ==
    [i \in IssueUniverse |->
        CASE i = 1 -> IssueRec("foreman", "NEW", 0, <<>>)
          [] i = 2 -> IssueRec("katello", "ASSIGNED", 9, <<>>)
          [] i = 3 -> Missing]

ConcInit ==
    /\ pr \in ConcPullRequests
    /\ event \in [Handlers -> ConcEvents]
    /\ runs \in ConcRuns
    /\ \A h \in Handlers : event[h].kind = "check_run" => runs # <<>>
    /\ tracker = ConcTracker
    /\ pc = [h \in Handlers |-> "idle"]
    /\ arg = [h \in Handlers |-> NoCheckRun]
    /\ handle = [h \in Handlers |-> NoCheckRun]
    /\ attempt = [h \in Handlers |-> 0]
    /\ tries = [h \in Handlers |-> 0]
    /\ sleeps = [h \in Handlers |-> <<>>]
    /\ config = [h \in Handlers |-> [exc |-> None, config |-> DefaultConfig]]
    /\ results = [h \in Handlers |-> NoResults]
    /\ recon = [h \in Handlers |-> "none"]
    /\ report = [h \in Handlers |-> NoReport]
    /\ calls = [h \in Handlers |-> <<>>]
    /\ saves = [h \in Handlers |-> <<>>]
    /\ resaves = <<>>
    /\ merge = [h \in Handlers |-> NoMerge]
    /\ versions = NoVersions
    /\ ParseIdle

ConcNext ==
    \E h \in Handlers :
        \/ on_pr_modified(h)
        \/ on_check_run(h)
        \/ on_suite_run(h)
        \/ NextPullRequest(h)
        \/ SetCheckInProgress(h)
        \/ BodySucceeds(h)
        \/ BodyFailsRetry(h)
        \/ BodyFailsFinal(h)
        \/ ReconcileAndReport(h)
        \/ CompletePatch(h)

SpecConc == ConcInit /\ [][ConcNext]_vars

(***************************************************************************)
(* SpecParse: the parser applied to one commit message.                    *)
(***************************************************************************)
ParseInit ==
    /\ pmsg \in [action : ActionParts, space : SpaceParts, refs : RefListParts,
                 sep : SepParts, rest : RestParts]
    /\ parsed = NotParsed
    /\ HandlersIdle(NoPullRequest, NoCheckRun, "idle")
    /\ runs = <<>>
    /\ tracker = [i \in IssueUniverse |-> Missing]

\* get_commits_from_pull_request on the one commit of the message
Parse ==
    /\ ~parsed.done
    /\ LET c == ParseCommit(Message(pmsg)) IN
         parsed' = [done |-> TRUE, exc |-> c.exc, fixes |-> c.fixes, refs |-> c.refs]
    /\ UNCHANGED <<pmsg, flowVars>>

ParseNext == Parse

SpecParse == ParseInit /\ [][ParseNext]_vars

(***************************************************************************)
(* Properties of run_pull_request_check, checked under Spec.               *)
(***************************************************************************)
\* the completed patches a handler has sent
CompletedPatches(h) ==
    {k \in 1..Len(calls[h]) : calls[h][k].status = "completed"}

BadCategoriesEmpty(res) ==
    /\ res.invalid_commits = <<>>
    /\ res.invalid_project_issues = <<>>
    /\ res.missing_issue_ids = <<>>

\* C1: once the check run is in progress, no completed patch is sent while
\* the validation body and its retries run; the run never ends without the
\* patch; and when it has ended exactly one completed patch was sent, it is
\* the last request, it went to the handler's check run, and that check run
\* is completed.
C1_ExactlyOneCompletedPatch ==
    \A h \in Handlers :
        /\ pc[h] # "crashed"
        /\ pc[h] \in {"idle", "start", "body", "reconcile", "complete"}
               => CompletedPatches(h) = {}
        /\ pc[h] = "done"
               => /\ CompletedPatches(h) = {Len(calls[h])}
                  /\ calls[h][Len(calls[h])].op = "patch"
                  /\ calls[h][Len(calls[h])].id = handle[h].id
                  /\ runs[handle[h].id].status = "completed"
                  /\ tries[h] >= 1

\* C1 witness: a run ended by exhausted retries on a check run that was
\* first patched to in_progress.
C1_Witness ==
    /\ pc["h1"] = "done"
    /\ arg["h1"].given /\ arg["h1"].status = "completed"
    /\ report["h1"].output.title = "Internal error while testing"
    /\ Len(calls["h1"]) = 2
    /\ runs[1].status = "completed"

\* C2 as stated: the conclusion of every completed patch is success exactly
\* when no category other than the valid issues is non-empty.
C2_ConclusionIffNoFinding ==
    \A h \in Handlers :
        pc[h] = "done"
            => (report[h].conclusion = "success" <=> BadCategoriesEmpty(results[h]))

\* C2 amended: when the validation body returned, the conclusion is success
\* exactly when no category other than the valid issues is non-empty; when
\* it raised, no category exists and the conclusion is failure.
C2_ConclusionOfFindings ==
    \A h \in Handlers :
        pc[h] \in {"complete", "done"}
            => /\ report[h].conclusion \in {"success", "failure"}
               /\ results[h].ok =>
                    (report[h].conclusion = "success"
                        <=> BadCategoriesEmpty(results[h]))
               /\ ~results[h].ok => report[h].conclusion = "failure"
               /\ pc[h] = "done" =>
                    runs[handle[h].id].conclusion = report[h].conclusion

\* C2 witness: the body returned with every category empty, and the
\* completed patch carries success.
C2_Witness ==
    /\ pc["h1"] = "done"
    /\ results["h1"].ok
    /\ BadCategoriesEmpty(results["h1"])
    /\ results["h1"].valid_issues = <<>>
    /\ runs[handle["h1"].id].conclusion = "success"

\* C3 as stated: when get_config raises UnconfiguredRepository the body is
\* attempted once, nothing sleeps, and the report is the Unknown repository
\* one with conclusion failure.
C3_UnconfiguredNotRetried ==
    \A h \in Handlers :
        tries[h] >= 1 /\ config[h].exc = "UnconfiguredRepository"
            => /\ tries[h] = 1
               /\ sleeps[h] = <<>>
               /\ pc[h] \in {"complete", "done"}
               /\ report[h].conclusion = "failure"
               /\ report[h].output.title = "Unknown repository"

\* C4: for a repository whose lookup does not raise, at most three attempts
\* are made; the k-th failure with k < 3 is followed by a sleep of k; the
\* first success ends the loop; three failures end it without a third
\* sleep, with the Internal error report and conclusion failure.
C4_RetryWithLinearBackoff ==
    \A h \in Handlers :
        get_config(pr[h].repo).exc = None
            => /\ tries[h] <= 3
               /\ pc[h] = "body"
                    => /\ tries[h] < 3
                       /\ attempt[h] = tries[h] + 1
                       /\ sleeps[h] = [k \in 1..tries[h] |-> k]
               /\ results[h].ok
                    => sleeps[h] = [k \in 1..(tries[h] - 1) |-> k]
               /\ pc[h] \in {"complete", "done"} /\ ~results[h].ok
                    => /\ tries[h] = 3
                       /\ sleeps[h] = <<1, 2>>
                       /\ report[h].conclusion = "failure"
                       /\ report[h].output.title = "Internal error while testing"

\* C4 witness: two failures, sleeps of 1 and 2, then a success.
C4_Witness ==
    /\ pc["h1"] = "done"
    /\ results["h1"].ok
    /\ tries["h1"] = 3
    /\ sleeps["h1"] = <<1, 2>>

\* C5: an exception of update_redmine_on_issues never leaves the handler;
\* the report is the one of the verification result and the invalid
\* commits, whatever the saves did and however the reconciliation ended,
\* and the completed patch is sent with it.
C5_ReconciliationNeverAffectsCheck ==
    \A h \in Handlers :
        /\ pc[h] # "crashed"
        /\ recon[h] # "none"
            => /\ pc[h] \in {"complete", "done"}
               /\ report[h].conclusion =
                    (IF BadCategoriesEmpty(results[h]) THEN "success" ELSE "failure")
               /\ report[h].output.summary =
                    summarize(Summary(results[h]),
                              Len(NonEmpty(Summary(results[h]), 1)) # 1, 1)
               /\ report[h].output.text =
                    format_details(results[h].invalid_project_issues,
                                   results[h].project)
               /\ pc[h] = "done" =>
                    /\ CompletedPatches(h) # {}
                    /\ runs[handle[h].id].conclusion = report[h].conclusion

\* C5 witness: the reconciliation raised after an issue was saved, and the
\* completed patch was sent with conclusion success.
C5_Witness ==
    /\ pc["h1"] = "done"
    /\ recon["h1"] = "failed"
    /\ Len(saves["h1"]) >= 1
    /\ Len(results["h1"].valid_issues) = 2
    /\ runs[handle["h1"].id].conclusion = "success"

\* C7 as stated: a handle that is not in_progress is patched and nothing is
\* created; in every other case a check run is created by a post.
C7_PatchElsePost ==
    \A h \in Handlers :
        pc[h] = "body" /\ tries[h] = 0
            => IF arg[h].given /\ arg[h].status # "in_progress"
               THEN /\ calls[h] = <<[op |-> "patch", id |-> arg[h].id,
                                     status |-> "in_progress"]>>
                    /\ Len(runs) = 1
               ELSE /\ Len(calls[h]) = 1
                    /\ calls[h][1].op = "post"
                    /\ Len(runs) = (IF arg[h].given THEN 2 ELSE 1)

\* C7 amended: a handle that is not in_progress is patched and nothing is
\* created; a handle that is already in_progress is kept and no request is
\* sent; a check run is created by a post only when there is no handle.
C7_PatchReuseOrPost ==
    \A h \in Handlers :
        pc[h] = "body" /\ tries[h] = 0
            => /\ arg[h].given /\ arg[h].status # "in_progress"
                    => /\ calls[h] = <<[op |-> "patch", id |-> arg[h].id,
                                        status |-> "in_progress"]>>
                       /\ Len(runs) = 1
                       /\ runs[1].status = "in_progress"
                       /\ handle[h] = arg[h]
               /\ arg[h].given /\ arg[h].status = "in_progress"
                    => /\ calls[h] = <<>>
                       /\ Len(runs) = 1
                       /\ handle[h] = arg[h]
               /\ ~arg[h].given
                    => /\ calls[h] = <<[op |-> "post", id |-> 1,
                                        status |-> "in_progress"]>>
                       /\ Len(runs) = 1
                       /\ runs[1].status = "in_progress"
                       /\ handle[h].given /\ handle[h].id = 1

\* C7 witness: the handle was already in_progress and nothing was sent.
C7_Witness ==
    /\ pc["h1"] = "body"
    /\ tries["h1"] = 0
    /\ arg["h1"].given /\ arg["h1"].status = "in_progress"
    /\ calls["h1"] = <<>>

\* C10: get_config returns the entry of a configured repository; it raises
\* UnconfiguredRepository exactly when there is no entry and the owner is
\* neither theforeman nor Katello; with no entry and such an owner it
\* returns the default policy.
C10_PolicyLookup ==
    \A h \in Handlers :
        tries[h] >= 1
            => LET repo   == pr[h].repo
                   listed == repo \in ConfiguredRepos
                   trusted == repo.owner = "theforeman" \/ repo.owner = "Katello"
               IN  /\ listed => config[h] = [exc |-> None, config |-> CONFIG[repo]]
                   /\ config[h].exc = "UnconfiguredRepository"
                        <=> (~listed /\ ~trusted)
                   /\ config[h].exc \in {None, "UnconfiguredRepository"}
                   /\ ~listed /\ trusted
                        => config[h] =
                             [exc |-> None,
                              config |-> [project |-> None, required |-> FALSE,
                                          refs |-> {}, version_prefix |-> None]]

\* C10 witness: an unconfigured repository of theforeman got the default
\* policy.
C10_Witness ==
    /\ tries["h1"] >= 1
    /\ pr["h1"].repo = Repo("theforeman", "unlisted")
    /\ config["h1"].exc = None
    /\ config["h1"].config.project = None
    /\ ~config["h1"].config.required

(***************************************************************************)
(* Idempotence of update_redmine_on_issues, checked under SpecSync.        *)
(***************************************************************************)
\* C6: the second run, on the issues as the first run left them, saves
\* nothing.
C6_SecondRunSavesNothing ==
    \A h \in Handlers : pc[h] = "synced" => resaves = <<>>

\* C6 witness: the first run saved both issues, one of them with all three
\* updates.
C6_Witness ==
    /\ pc["h1"] = "synced"
    /\ Len(saves["h1"]) = 2
    /\ saves["h1"][1].updates.custom_fields # <<>>
    /\ saves["h1"][1].updates.assigned_to_id # 0
    /\ saves["h1"][1].updates.status_id # None

(***************************************************************************)
(* Properties of the parser, checked under SpecParse.                      *)
(***************************************************************************)
\* the grammar up to the separator: an action word in any letter case, one
\* space, a reference list, a colon or space-dash
WellFormedHead(p) ==
    /\ p.action.word # None
    /\ p.space = <<" ">>
    /\ p.refs.ok
    /\ p.sep.ok

\* what the message then means
Meaning(p) ==
    [done  |-> TRUE,
     exc   |-> None,
     fixes |-> IF p.action.word = "fixes" THEN p.refs.ids ELSE {},
     refs  |-> IF p.action.word = "refs" THEN p.refs.ids ELSE {}]

\* C8 as stated: the separator is followed by the description (here a
\* non-empty one), and the ids of the reference list are in the set the
\* action word names.
C8_ParsesGrammar ==
    parsed.done /\ WellFormedHead(pmsg) /\ pmsg.rest # <<>>
        /\ pmsg.rest[1] \notin LineBreaks
        => parsed = Meaning(pmsg)

\* C8 amended: when the separator is followed by a space and then the
\* description (which may be empty), and no id has more digits than int()
\* converts, the ids of the reference list are in the set the action word
\* names, the other set is empty and nothing is raised; with an id of more
\* digits the parser raises ValueError.
C8_ParsesGrammarWithSpace ==
    parsed.done /\ WellFormedHead(pmsg) /\ StartsWith(pmsg.rest, <<" ">>)
        => IF pmsg.refs.long
           THEN parsed = [done |-> TRUE, exc |-> "ValueError", fixes |-> {}, refs |-> {}]
           ELSE parsed = Meaning(pmsg)

\* C8 witness: REFS with a list that repeats an id.
C8_Witness ==
    /\ parsed.done
    /\ pmsg.action.text = <<"R", "E", "F", "S">>
    /\ pmsg.refs.ids = {1, 3}
    /\ pmsg.sep.text = <<" ", "-">>
    /\ parsed.refs = {1, 3}
    /\ parsed.fixes = {}

\* does the first line of the message match the pattern
FirstLineMatches(message) ==
    ~SubjectRaises(message) /\ RegexMatch(subject(message)).matched

\* C9 as stated: a message whose first line does not match, the empty
\* message included, is parsed to empty sets and nothing is raised.
C9_NoMatchParsesEmpty ==
    parsed.done /\ ~FirstLineMatches(Message(pmsg))
        => parsed.exc = None /\ parsed.fixes = {} /\ parsed.refs = {}

(***************************************************************************)
(* The findings of get_issues_from_pr, checked under Spec.                 *)
(***************************************************************************)
\* the issues a commit message of FlowMessages refers to, as its author
\* means it
MsgIds(m) ==
    CASE m = MsgFixes1 -> {1}
      [] m = MsgRefs2 -> {2}
      [] m = MsgFixes3 -> {1, 3}
      [] OTHER -> {}

\* the ids of the three lists of a verification result
ClassifiedIds(res) ==
    IdSet(res.valid_issues) \cup IdSet(res.invalid_project_issues)
        \cup {res.missing_issue_ids[k] : k \in 1..Len(res.missing_issue_ids)}

\* C11: when get_issues_from_pr returned, the k-th commit is among the
\* invalid commits exactly when the policy has required = true and the
\* commit refers to no issue, each such commit once and in order; the ids
\* that were verified are the ids of all commits, fixes and refs alike; and
\* a run on a required policy with a commit without reference ends with
\* conclusion failure.
C11_InvalidCommitsAndCandidates ==
    \A h \in Handlers :
        LET cs == pr[h].commits
            required == config[h].exc = None /\ config[h].config.required
            bare == {k \in 1..Len(cs) : MsgIds(cs[k]) = {}}
        IN  /\ results[h].ok
                 => /\ results[h].invalid_commits =
                         SortedSeq(IF required THEN bare ELSE {})
                    /\ results[h].issue_ids =
                         UNION {MsgIds(cs[k]) : k \in 1..Len(cs)}
                    /\ ClassifiedIds(results[h]) = results[h].issue_ids
            /\ pc[h] \in {"complete", "done"} /\ required /\ bare # {}
                 => report[h].conclusion = "failure"
            /\ pc[h] = "done" /\ required /\ bare # {}
                 => runs[handle[h].id].conclusion = "failure"

\* C11 witness: on a required policy, a commit that fixes an issue and one
\* without reference; the second is the one invalid commit and the check
\* run failed.
C11_Witness ==
    /\ pc["h1"] = "done"
    /\ pr["h1"].repo = Repo("theforeman", "foreman")
    /\ pr["h1"].commits = <<MsgFixes1, MsgNoRef>>
    /\ results["h1"].ok
    /\ results["h1"].invalid_commits = <<2>>
    /\ results["h1"].issue_ids = {1}
    /\ Ids(results["h1"].valid_issues) = <<1>>
    /\ runs[handle["h1"].id].conclusion = "failure"

(***************************************************************************)
(* The scenario of issue 55, checked under SpecScenario.                   *)
(***************************************************************************)
\* issue 55 is reported under the invalid project findings of handler h,
\* with its remediation text, and the conclusion is failure
ReportedInvalidProject(h) ==
    /\ Ids(results[h].invalid_project_issues) = <<55>>
    /\ results[h].valid_issues = <<>>
    /\ results[h].missing_issue_ids = <<>>
    /\ report[h].output.title = "Invalid project"
    /\ report[h].output.summary = <<Bullet("Invalid project", 55)>>
    /\ report[h].output.hasText
    /\ report[h].output.text = <<[id |-> 55, from |-> "bar", to |-> "foo"]>>
    /\ report[h].conclusion = "failure"
    /\ runs[handle[h].id].conclusion = "failure"
    /\ runs[handle[h].id].text = report[h].output.text

\* C12 as stated: when the single commit message is "fixes #55", issue 55
\* is in project bar and the verification returned, the completed check run
\* reports issue 55 under the invalid project findings, with the
\* remediation text and conclusion failure.
C12_Fixes55Reported ==
    \A h \in Handlers :
        (pc[h] = "done" /\ results[h].ok
             /\ pr[h].commits = <<Msg55Bare>>
             /\ tracker[55].exists /\ tracker[55].project = "bar")
            => ReportedInvalidProject(h)

\* C12 amended: when the single commit message is "fixes #55" followed by
\* a separator, a space and a description, issue 55 is in project bar and
\* the verification returned, the completed check run reports issue 55
\* under the invalid project findings, with the remediation text and
\* conclusion failure; the message "fixes #55" alone refers to no issue,
\* and nothing is reported under the invalid project findings.
C12_Fixes55WithDescriptionReported ==
    \A h \in Handlers :
        pc[h] = "done" /\ results[h].ok
        /\ tracker[55].exists /\ tracker[55].project = "bar"
            => /\ pr[h].commits \in {<<Msg55Colon>>, <<Msg55Dash>>}
                    => ReportedInvalidProject(h)
               /\ pr[h].commits = <<Msg55Bare>>
                    => /\ results[h].issue_ids = {}
                       /\ results[h].invalid_project_issues = <<>>
                       /\ ~report[h].output.hasText \/ report[h].output.text = <<>>

\* C12 witness: "fixes #55: x" with issue 55 in project bar, reported
\* under the invalid project findings on a new check run.
C12_Witness ==
    /\ pc["h1"] = "done"
    /\ pr["h1"].commits = <<Msg55Colon>>
    /\ ~arg["h1"].given
    /\ tracker[55].project = "bar"
    /\ ReportedInvalidProject("h1")

(***************************************************************************)
(* The order of the steps and the text of the report, checked under Spec.  *)
(***************************************************************************)
\* C14 as stated: no issue is saved before the completed patch of the
\* check run was sent.
C14_CompletedBeforeReconcile ==
    \A h \in Handlers : saves[h] # <<>> => CompletedPatches(h) # {}

\* C14 amended: nothing is saved before the verification returned; when
\* it returned, update_redmine_on_issues has run, and made all its saves,
\* before the completed patch is sent; when it raised, nothing is saved at
\* all.
C14_ReconcileBeforeCompleted ==
    \A h \in Handlers :
        /\ pc[h] \in {"idle", "start", "body", "reconcile"}
               => saves[h] = <<>> /\ recon[h] = "none"
        /\ pc[h] = "reconcile" => results[h].ok
        /\ pc[h] = "complete" /\ results[h].ok
               => /\ recon[h] # "none"
                  /\ CompletedPatches(h) = {}
                  /\ runs[handle[h].id].status = "in_progress"
        /\ CompletedPatches(h) # {} /\ results[h].ok => recon[h] # "none"
        /\ pc[h] \in {"complete", "done"} /\ ~results[h].ok
               => saves[h] = <<>> /\ recon[h] = "none"

\* C14 witness: an issue was saved and the check run is still in progress,
\* its completed patch not sent yet.
C14_Witness ==
    /\ pc["h1"] = "complete"
    /\ results["h1"].ok
    /\ recon["h1"] = "ok"
    /\ saves["h1"] # <<>>
    /\ CompletedPatches("h1") = {}
    /\ runs[handle["h1"].id].status = "in_progress"

\* C15 as stated: the output of a completed patch lacks the text field
\* exactly when the remediation text is empty and the check run had no
\* text before; so with a text before, the field is always sent, on the
\* Unknown repository and Internal error reports too.
C15_TextDroppedOnlyWithoutPrior ==
    \A h \in Handlers :
        pc[h] \in {"complete", "done"}
            => (~report[h].output.hasText
                    <=> (report[h].output.text = <<>> /\ handle[h].text = <<>>))

(***************************************************************************)
(* What update_redmine_on_issues changes, checked under SpecSync.  After   *)
(* the first run results[h].valid_issues still holds the issues as they    *)
(* were fetched, and tracker holds them as Redmine now has them.           *)
(***************************************************************************)
\* the titles of SyncPullRequests that start with CP, [CP] or
\* Cherry picks for
CherryPickTitles == {TitleCP, TitleBrCP, TitlePicks}

\* the saves handler h made for issue i
SavesOf(h, i) == {j \in 1..Len(saves[h]) : saves[h][j].id = i}

\* C17: for every issue of the run that is not rejected: on a cherry-pick
\* the list of pull requests is as it was, and no save carries the field,
\* while the assignee and the status are updated as on any pull request;
\* on another pull request the list is the old list, followed by the URL
\* exactly when the old list did not hold it.
C17_CherryPickKeepsPrList ==
    \A h \in Handlers :
        pc[h] \in {"sync2", "synced"} =>
            \A k \in 1..Len(results[h].valid_issues) :
                LET old == results[h].valid_issues[k]
                    now == tracker[old.id]
                IN  old.status # "REJECTED" =>
                      /\ pr[h].title \in CherryPickTitles
                            => /\ now.prs = old.prs
                               /\ \A j \in SavesOf(h, old.id) :
                                     saves[h][j].updates.custom_fields = <<>>
                      /\ pr[h].title \notin CherryPickTitles
                            => now.prs = IF Contains(old.prs, pr[h].url)
                                         THEN old.prs
                                         ELSE old.prs \o <<pr[h].url>>
                      /\ now.assigned_to =
                            (IF old.assigned_to = 0 /\ pr[h].login = "alice"
                             THEN 7 ELSE old.assigned_to)
                      /\ now.status =
                            (IF old.status \in {"CLOSED", "READY_FOR_TESTING"}
                             THEN old.status ELSE "READY_FOR_TESTING")

\* C17 witness: a pull request titled [CP] by a mapped author, on an open
\* issue without assignee that is linked to another pull request: the
\* list is kept, the assignee and the status are set.
C17_Witness ==
    /\ pc["h1"] = "sync2"
    /\ pr["h1"].title = TitleBrCP
    /\ pr["h1"].login = "alice"
    /\ Len(results["h1"].valid_issues) >= 1
    /\ results["h1"].valid_issues[1] =
          [id |-> 1, project |-> "foreman", status |-> "NEW", assigned_to |-> 0,
           prs |-> <<"pr2">>]
    /\ tracker[1].prs = <<"pr2">>
    /\ tracker[1].assigned_to = 7
    /\ tracker[1].status = "READY_FOR_TESTING"

\* C18: a rejected issue is not saved and stays as it was; an assignee
\* that was set stays, and without a mapping of the author none is set; the
\* status of an issue that was closed or ready for testing stays; and no
\* issue is saved twice in a run.
C18_NoClobber ==
    \A h \in Handlers :
        pc[h] \in {"sync2", "synced"} =>
            /\ \A k \in 1..Len(results[h].valid_issues) :
                  LET old == results[h].valid_issues[k]
                      now == tracker[old.id]
                  IN  /\ Cardinality(SavesOf(h, old.id)) <= 1
                      /\ old.status = "REJECTED"
                            => /\ SavesOf(h, old.id) = {}
                               /\ IssueObject(tracker, old.id) = old
                      /\ old.assigned_to # 0
                            => /\ now.assigned_to = old.assigned_to
                               /\ \A j \in SavesOf(h, old.id) :
                                     saves[h][j].updates.assigned_to_id = 0
                      /\ pr[h].login \notin DOMAIN USERS
                            => now.assigned_to = old.assigned_to
                      /\ old.status \in {"CLOSED", "READY_FOR_TESTING"}
                            => /\ now.status = old.status
                               /\ \A j \in SavesOf(h, old.id) :
                                     saves[h][j].updates.status_id = None
            /\ \A j \in 1..Len(saves[h]) :
                  saves[h][j].id \in IdSet(results[h].valid_issues)

\* C18 witness: a mapped author; the rejected issue was not saved, and the
\* closed issue that has an assignee was saved once, for its list of pull
\* requests only.
C18_Witness ==
    /\ pc["h1"] = "sync2"
    /\ pr["h1"].login = "alice"
    /\ Len(results["h1"].valid_issues) = 2
    /\ results["h1"].valid_issues[1].status = "REJECTED"
    /\ results["h1"].valid_issues[2].status = "CLOSED"
    /\ results["h1"].valid_issues[2].assigned_to = 9
    /\ saves["h1"] =
          <<[id |-> 2,
             updates |-> [custom_fields |-> <<<<"pr1">>>>, assigned_to_id |-> 0,
                          status_id |-> None]]>>
    /\ tracker[2].assigned_to = 9
    /\ tracker[2].status = "CLOSED"

(***************************************************************************)
(* Properties of on_pr_merge, checked under SpecMerge.                     *)
(***************************************************************************)
\* the branches of Branches that are main, master, develop, deb/develop or
\* rpm/develop, or that end with -stable
RecognizedBranches ==
    { BrMain, BrMaster, BrDevelop, BrDebDevelop, BrRpmDevelop, Br30Stable,
      BrStable }

\* the tracker project of the policy a repository of Repos resolves to
PolicyProject(repo) ==
    CASE repo = Repo("theforeman", "foreman") -> "foreman"
      [] repo = Repo("Katello", "katello") -> "katello"
      [] repo = Repo("someone", "plugin") -> "foreman"
      [] repo = Repo("acme", "foo") -> "foo"
      [] OTHER -> None

\* the version prefix the handler is to look for
ExpectedPrefix(p) ==
    (IF p.repo = Repo("Katello", "katello") THEN <<"K">> ELSE <<>>)
        \o (CASE p.base_ref = Br30Stable -> <<"3", ".", "0", ".">>
              [] p.base_ref = BrStable -> <<".">>
              [] OTHER -> <<>>)

\* the project has an open version whose name starts with the prefix
HasOpenVersion(project, prefix) ==
    /\ project \in DOMAIN versions
    /\ \E k \in 1..Len(versions[project]) :
          versions[project][k].open /\ StartsWith(versions[project][k].name, prefix)

\* C13: on_pr_merge sends no check-run request and creates no check run;
\* it sets a fix version only when the pull request is merged, the base
\* branch is a recognized one, the repository resolves to a policy with a
\* tracker project, and that project has an open version with the prefix;
\* otherwise no issue is written.
C13_FixVersionOnlyWhenMerged ==
    /\ runs = <<>>
    /\ \A h \in Handlers :
        /\ calls[h] = <<>> /\ ~handle[h].given
        /\ saves[h] # <<>>
              => /\ pr[h].merged
                 /\ pr[h].base_ref \in RecognizedBranches
                 /\ PolicyProject(pr[h].repo) # None
                 /\ HasOpenVersion(PolicyProject(pr[h].repo), ExpectedPrefix(pr[h]))
        /\ pc[h] \in {"idle", "merge_gate", "merge_commits"} => saves[h] = <<>>
    /\ \A i \in IssueUniverse :
          tracker[i].fixed_version # None
              => \E h \in Handlers : \E j \in 1..Len(saves[h]) :
                    saves[h][j] = [id |-> i, fixed_version |-> tracker[i].fixed_version]

\* C13 witness: merged into 3.0-stable with a commit that fixes issue 1;
\* the fix version of issue 1 is 3.0.5.
C13_Witness ==
    /\ pc["h1"] = "done"
    /\ pr["h1"].merged
    /\ pr["h1"].base_ref = Br30Stable
    /\ pr["h1"].repo = Repo("theforeman", "foreman")
    /\ pr["h1"].commits = <<MsgFixes1>>
    /\ saves["h1"] = <<[id |-> 1, fixed_version |-> V305]>>
    /\ tracker[1].fixed_version = V305
    /\ calls["h1"] = <<>>

\* the issues a commit message of FlowMessages fixes, as its author means it
MsgFixIds(m) ==
    CASE m = MsgFixes1 -> {1}
      [] m = MsgFixes3 -> {1, 3}
      [] OTHER -> {}

\* C16: an issue has its fix version set only if a commit fixes it and its
\* project is the tracker project of the policy, so never through refs
\* alone; when the handler has set the versions, every such issue that
\* exists has one; and Redmine gets a request only when some commit fixes
\* an issue.
C16_OnlyFixesOfProject ==
    \A h \in Handlers :
        LET cs == pr[h].commits
            fixed == UNION {MsgFixIds(cs[k]) : k \in 1..Len(cs)}
            project == PolicyProject(pr[h].repo)
        IN  pc[h] \in {"done", "crashed"} =>
              /\ \A i \in IssueUniverse :
                    tracker[i].fixed_version # None
                        => i \in fixed /\ tracker[i].project = project
              /\ \A j \in 1..Len(saves[h]) : saves[h][j].id \in fixed
              /\ merge[h].issue_ids \subseteq fixed
              /\ fixed = {} => merge[h].requests = <<>> /\ saves[h] = <<>>
              /\ merge[h].requests # <<>> => merge[h].issue_ids = fixed /\ fixed # {}
              /\ Contains(merge[h].requests, "issues")
                    => \A i \in fixed :
                          tracker[i].exists /\ tracker[i].project = project
                              => tracker[i].fixed_version # None

\* C16 witness: the commits fix issues 1 and 3 and refer to issue 2;
\* issues 1 and 2 are in the project and issue 3 is not; only issue 1 has
\* its fix version set.
C16_Witness ==
    /\ pc["h1"] = "done"
    /\ pr["h1"].repo = Repo("theforeman", "foreman")
    /\ pr["h1"].base_ref = BrDevelop
    /\ pr["h1"].commits = <<MsgFixes3, MsgRefs2>>
    /\ tracker[2].project = "foreman" /\ tracker[3].project = "katello"
    /\ merge["h1"].requests = <<"project", "versions", "issues">>
    /\ saves["h1"] = <<[id |-> 1, fixed_version |-> V310]>>
    /\ tracker[2].fixed_version = None
    /\ tracker[3].fixed_version = None

\* how many times x occurs in the sequence s
Occurrences(x, s) == Cardinality({k \in 1..Len(s) : s[k] = x})

\* both handlers returned, and the last call of each verified the commits
\* and reconciled the issues
BothReconciled ==
    \A h \in Handlers :
        /\ pc[h] = "done"
        /\ event[h].left = 0
        /\ recon[h] = "ok"
        /\ 1 \in results[h].issue_ids

\* C19: two events for two different pull requests, neither a cherry
\* pick, that refer to the same valid issue are handled concurrently; in
\* every interleaving, after both handlers have returned, the list of pull
\* requests of the issue holds the URL of each exactly once.
C19_NoLostUpdate ==
    (/\ pr["h1"].url # pr["h2"].url
     /\ \A h \in Handlers : ~pr_is_cherry_pick(pr[h])
     /\ BothReconciled)
        => \A h \in Handlers : Occurrences(pr[h].url, tracker[1].prs) = 1

\* C19 witness: both handlers returned, each saved issue 1, and the pull
\* request of h2 was linked before the one of h1.
C19_Witness ==
    /\ pr["h1"].url = "pr1" /\ pr["h2"].url = "pr2"
    /\ BothReconciled
    /\ saves["h1"] # <<>> /\ saves["h2"] # <<>>
    /\ tracker[1].prs = <<"pr2", "pr1">>

\* every handler returned from its last call
AllFinished == \A h \in Handlers : pc[h] = "done" /\ event[h].left = 0

\* C20: handlers that run concurrently on the same check run leave it
\* completed once all of them have returned, in every interleaving of their
\* in_progress and completed patches; and a check run that is in progress
\* has a handler that will still send its completed patch.
C20_CompletedWhenAllFinished ==
    /\ AllFinished
          => \A h \in Handlers :
                handle[h].given => runs[handle[h].id].status = "completed"
    /\ \A id \in 1..Len(runs) :
          runs[id].status = "in_progress"
              => \E h \in Handlers :
                    /\ pc[h] \in {"body", "reconcile", "complete"}
                    /\ handle[h].id = id

\* C20 witness: a check_suite event and a check_run event were handled on
\* check run 1, each handler sent its in_progress patch, and both
\* returned.
C20_Witness ==
    /\ AllFinished
    /\ event["h1"].kind = "check_suite" /\ event["h2"].kind = "check_run"
    /\ \A h \in Handlers :
          /\ handle[h].id = 1
          /\ \E k \in 1..Len(calls[h]) :
                calls[h][k] = [op |-> "patch", id |-> 1, status |-> "in_progress"]
    /\ runs[1].status = "completed"

====
